---- MODULE Spec2Model ----
(***************************************************************************)
(* Model of the reel-locator core:                                         *)
(*   - ParallelVisionEngine.analyze   (src/rl_agents/parallel_vision.py)   *)
(*   - RefinementLoop.refine          (src/rl_agents/refinement_agent.py)  *)
(*   - the metrics store              (src/observability/obs.py)           *)
(* Confidences are floats in the source; here they are integers counting   *)
(* tenths (0.5 is 5), and an average is kept as an exact fraction          *)
(* [num, den] so that "strictly higher" and "exact tie" are exact.         *)
(***************************************************************************)
EXTENDS Integers, Sequences, FiniteSets, TLC

\* ------------------------------------------------------------------ bounds
\* Largest number of agents an engine is constructed with (num_agents).
MaxAgents == 3

\* Largest max_iters a RefinementLoop is constructed with.
MaxIters == 3

\* Number of threads that call into the metrics store.
NumThreads == 2
\* Number of operations (inc calls, timer scopes, failures) begun in a run.
MaxOps == 2
\* Number of timer scopes a thread nests.
MaxDepth == 2
\* The last reading of the clock.
MaxClock == 1
\* Number of dashboard renderings begun in a run.
MaxRenders == 2
\* Number of plan_itinerary_from_reel invocations served by a process.
MaxRuns == 2
\* Number of run_once calls made in a process.
MaxCalls == 3

\* --------------------------------------------------------------- constants
\* best_score = -1, in tenths.
InitialBestScore == -10
\* threshold: float = 0.70, in tenths.
DefaultThreshold == 7

\* ------------------------------------------------------------------- values
\* Python None, and a value that is not None: an optional value is a sequence
\* of at most one element.
None == << >>
Some(x) == <<x>>

VARIABLES
    \* ---- ParallelVisionEngine.analyze
    num_agents,   \* self.num_agents
    agentOut,     \* what agent i's analyze_frames will produce (a dict or an exception)
    pv_pc,        \* "start", "awaiting" (suspended in gather), "returned", "raised"
    worker,       \* state of task i: "new", "running", "ok", "failed"
    finished,     \* the agents in the order their tasks completed
    results,      \* the list asyncio.gather handed back
    best,         \* the returned dict (with the agent it came from), or None
    pv_err,       \* the exception analyze raised, or None
    \* ---- RefinementLoop.refine
    threshold,    \* self.threshold, in tenths
    max_iters,    \* self.max_iters
    raw_vision,   \* the argument raw_vision
    rl_pc,        \* "start", "loop", "returned", "raised"
    current,      \* current
    last_conf,    \* last_conf
    iters,        \* iters
    refined,      \* refined (None before the first call)
    calls,        \* number of geo_agent.refine_location calls made so far
    hist,         \* per call that returned: its input, and [new_conf, last_conf] as the branches saw them
    ret,          \* the returned pair [cand, iters] with the branch taken, or None
    rl_err,       \* the exception refine raised, or None
    \* ---- observability/obs.py
    lock,         \* _METRICS_LOCK: 0 when free, else the thread holding it
    metrics,      \* _METRICS: [counters, latencies, timings], each a dict over Keys
    now,          \* the reading time.perf_counter() gives, in clock ticks
    th_pc,        \* where thread t is: "idle" (outside obs.py) or inside a call
    th_key,       \* the key of the call thread t is in
    th_amount,    \* the amount of the inc call thread t is in
    th_tmp,       \* the value thread t read or computed and has not stored yet
    th_scopes,    \* the timer objects thread t is inside of, innermost last
    th_exc,       \* an exception is propagating in thread t
    th_result,    \* "running", or "raised" once the exception left the outermost scope
    ops,          \* number of operations begun so far
    incReturned,  \* per thread and key, the sum of the amounts of its inc calls that returned
    th_val,       \* the value of the record_latency call thread t is in
    th_part,      \* the copies get_metrics has made so far in thread t, in order
    th_snap,      \* the dict get_metrics last returned to thread t, or None
    latencyCalls, \* per key, the values record_latency was given, in the order of the stores
    \* ---- observability/dashboard.py
    th_render,    \* the get_metrics call thread t is in was made by the dashboard formatter
    rendered,     \* per finished rendering, the dict it formatted and the text it returned
    \* ---- mcp_server.py: plan_itinerary_from_reel and the tools it calls
    pl_pc,        \* where the pipeline is, "start" to "returned" (or "raised")
    pl_scopes,    \* the timer objects the pipeline is inside of, innermost last
    ar_result,    \* the dict analyze_reel returned, or None
    places_resp,  \* the dict fetch_city_places returned, or None
    pl_result,    \* the dict plan_itinerary_from_reel returned, or None
    fault,        \* the operation that failed in this run, or None
    started,      \* the stages begun in this run, in order
    reels,        \* per analyze_reel invocation of the process: which of its stages succeeded
    \* ---- adk_agent/agent.py: run_once and its MemoryBank
    ro_pc,        \* "idle" (no call in progress) or "running" (the runner is executing)
    ro_raised,    \* the last run_once call raised RuntimeError
    memory_bank,  \* memory_bank.entries of the call in progress or last made
    stored,       \* every text a MemoryBank.store call was given, in order
    injected      \* per call, the session_context build_root_agent was given

pvVars == <<num_agents, agentOut, pv_pc, worker, finished, results, best, pv_err>>
rlVars == <<threshold, max_iters, raw_vision, rl_pc, current, last_conf, iters,
            refined, calls, hist, ret, rl_err>>
obsVars == <<lock, metrics, now, th_pc, th_key, th_amount, th_tmp, th_scopes,
             th_exc, th_result, ops, incReturned>>
snapVars == <<th_val, th_part, th_snap, latencyCalls>>
dashVars == <<th_render, rendered>>
plVars == <<pl_pc, pl_scopes, ar_result, places_resp, pl_result, fault, started, reels>>
memVars == <<ro_pc, ro_raised, memory_bank, stored, injected>>
vars == <<pvVars, rlVars, obsVars, snapVars, dashVars, plVars, memVars>>

\* ------------------------------------------------- the vision results (inputs)
\* A landmark dict: with a "confidence" (in tenths), or without the key.
LM(c) == [has_confidence |-> TRUE, confidence |-> c]
LMNoConfidence == [has_confidence |-> FALSE, confidence |-> 0]

\* A vision result dict: with a "landmarks" list, or without the key.
WithLandmarks(lms) == [has_landmarks |-> TRUE, landmarks |-> lms]
NoLandmarksKey == [has_landmarks |-> FALSE, landmarks |-> << >>]

\* The dicts the agents may return: the "landmarks" key missing, an empty
\* list, a landmark without "confidence", in-range confidences (two different
\* lists with the same mean 0.5), and confidences below 0.
VisionResults ==
    { NoLandmarksKey,
      WithLandmarks(<< >>),
      WithLandmarks(<<LMNoConfidence>>),
      WithLandmarks(<<LM(5)>>),
      WithLandmarks(<<LM(2), LM(8)>>),
      WithLandmarks(<<LM(10)>>),
      WithLandmarks(<<LM(-10)>>),
      WithLandmarks(<<LM(-20), LM(-10)>>) }

\* What one agent.analyze_frames call does: return a dict r, or raise.
Returns(r) == [raises |-> FALSE, r |-> r]
Raises == [raises |-> TRUE, r |-> NoLandmarksKey]
AgentOutcomes == { Returns(r) : r \in VisionResults } \cup { Raises }

Agents == 0 .. (num_agents - 1)

\* r.get("landmarks", [])
Landmarks(r) == IF r.has_landmarks THEN r.landmarks ELSE << >>

\* lm.get("confidence", 0.0)
LandmarkConf(lm) == IF lm.has_confidence THEN lm.confidence ELSE 0

RECURSIVE SumConfs(_)
SumConfs(lms) ==
    IF lms = << >> THEN 0 ELSE LandmarkConf(Head(lms)) + SumConfs(Tail(lms))

\* avg_conf = sum(confs) / len(confs) if confs else 0
AvgConf(r) ==
    LET confs == Landmarks(r)
    IN  IF Len(confs) > 0
        THEN [num |-> SumConfs(confs), den |-> Len(confs)]
        ELSE [num |-> 0, den |-> 1]

\* a > b on fractions with positive denominators
Greater(a, b) == a.num * b.den > b.num * a.den

\* if avg_conf > best_score   (the mutant takes the later candidate on a tie)
Better_GreaterOrEqual(avg_conf, best_score) == ~ Greater(best_score, avg_conf)
Better(avg_conf, best_score) == Greater(avg_conf, best_score)

\* for idx, r in enumerate(results): ... from position idx on, with the best
\* so far in acc = [best, best_score]
RECURSIVE AggregateFrom(_, _, _)
AggregateFrom(rs, idx, acc) ==
    IF idx > Len(rs) THEN acc
    ELSE LET avg_conf == AvgConf(rs[idx].r)
         IN  IF Better(avg_conf, acc.best_score)
             THEN AggregateFrom(rs, idx + 1,
                                [best |-> Some(rs[idx]), best_score |-> avg_conf])
             ELSE AggregateFrom(rs, idx + 1, acc)

\* best = None; best_score = -1; the loop   (the mutant starts from an empty
\* candidate instead of None)
Aggregate_EmptyDefault(rs) ==
    AggregateFrom(rs, 1, [best |-> Some([agent |-> 0, r |-> WithLandmarks(<< >>)]),
                          best_score |-> [num |-> InitialBestScore, den |-> 1]])
Aggregate(rs) ==
    AggregateFrom(rs, 1, [best |-> None,
                          best_score |-> [num |-> InitialBestScore, den |-> 1]])

\* ---------------------------------------------------------- asyncio.gather
AnyFailed == \E i \in Agents : worker[i] = "failed"
AllDone == \A i \in Agents : worker[i] \in {"ok", "failed"}

\* gather(..., return_exceptions=False) wakes the awaiting analyze when every
\* task is done or as soon as one has raised (the mutant: as soon as any task
\* is done).
GatherReady_FirstCompleted == AnyFailed \/ (\E i \in Agents : worker[i] = "ok") \/ Agents = {}
GatherReady == AnyFailed \/ AllDone

\* return_exceptions=False: the first exception is raised in analyze (the
\* mutant: exceptions are dropped and the successful results are kept).
GatherRaises_Never == FALSE
GatherRaises == AnyFailed

RECURSIVE DispatchOrder(_)
DispatchOrder(n) == IF n = 0 THEN << >> ELSE Append(DispatchOrder(n - 1), n - 1)

IsOk(i) == worker[i] = "ok"

\* the results of the completed tasks, in the order the tasks were passed to
\* gather (the mutant: in the order the tasks completed)
GatherResults_CompletionOrder ==
    LET done == SelectSeq(finished, IsOk)
    IN  [k \in 1 .. Len(done) |-> [agent |-> done[k], r |-> agentOut[done[k]].r]]
GatherResults ==
    LET done == SelectSeq(DispatchOrder(num_agents), IsOk)
    IN  [k \in 1 .. Len(done) |-> [agent |-> done[k], r |-> agentOut[done[k]].r]]

\* ------------------------------------------------ ParallelVisionEngine.analyze
InitVision ==
    /\ num_agents \in 0 .. MaxAgents
    /\ agentOut \in [0 .. (num_agents - 1) -> AgentOutcomes]
    /\ pv_pc = "start"
    /\ worker = [i \in 0 .. (num_agents - 1) |-> "new"]
    /\ finished = << >>
    /\ results = << >>
    /\ best = None
    /\ pv_err = None

\* lines 60-67: build the tasks, hand them to gather, suspend
Dispatch ==
    /\ pv_pc = "start"
    /\ pv_pc' = "awaiting"
    /\ worker' = [i \in Agents |-> "running"]
    /\ UNCHANGED <<num_agents, agentOut, finished, results, best, pv_err>>

\* The task of agent i is still running: gather(return_exceptions=False) does
\* not cancel the other tasks when one raises, and neither does analyze
\* (the mutant: the tasks stop once analyze has raised)
StillRuns_UntilFailure(i) == worker[i] = "running" /\ pv_pc # "raised"
StillRuns(i) == worker[i] = "running"

\* _run_agent: agent.analyze_frames returns or raises in its executor thread
RunAgent(i) ==
    /\ StillRuns(i)
    /\ worker' = [worker EXCEPT ![i] = IF agentOut[i].raises THEN "failed" ELSE "ok"]
    /\ finished' = Append(finished, i)
    /\ UNCHANGED <<num_agents, agentOut, pv_pc, results, best, pv_err>>

\* line 67: gather raises the worker's exception out of analyze
AnalyzeRaises ==
    /\ pv_pc = "awaiting"
    /\ GatherReady
    /\ GatherRaises
    /\ pv_pc' = "raised"
    /\ pv_err' = Some("InferenceError")
    /\ UNCHANGED <<num_agents, agentOut, worker, finished, results, best>>

\* lines 67-95: gather returns the results; aggregate; return best or raise
AnalyzeAggregates ==
    /\ pv_pc = "awaiting"
    /\ GatherReady
    /\ ~ GatherRaises
    /\ results' = GatherResults
    /\ LET acc == Aggregate(GatherResults)
       IN  IF acc.best = None
           THEN /\ pv_pc' = "raised"
                /\ pv_err' = Some("ValueError")
                /\ best' = None
           ELSE /\ pv_pc' = "returned"
                /\ pv_err' = None
                /\ best' = Some([agent |-> acc.best[1].agent,
                                  r |-> acc.best[1].r,
                                  avg_confidence |-> acc.best_score])
    /\ UNCHANGED <<num_agents, agentOut, worker, finished>>

\* ======================================================== RefinementLoop
\* The value under the key "confidence" of a dict: a number (in tenths), JSON
\* null, or the key missing.
Num(v) == [kind |-> "num", v |-> v]
NullConf == [kind |-> "null", v |-> 0]
AbsentConf == [kind |-> "absent", v |-> 0]

\* A location dict, tagged with the geo_agent call that produced it (0: the
\* raw vision result handed to refine).
Cand(k, c) == [iter |-> k, confidence |-> c]

Thresholds == {5, DefaultThreshold}
RawConfs == {AbsentConf, NullConf, Num(4), Num(8)}
NormConfs == {AbsentConf, NullConf, Num(0), Num(3), Num(4), Num(5), Num(6), Num(8)}

\* What one geo_agent.refine_location call does: return a dict with this
\* "confidence", or raise.
NormReturns(c) == [raises |-> FALSE, confidence |-> c]
NormRaises == [raises |-> TRUE, confidence |-> AbsentConf]
NormOutcomes == { NormReturns(c) : c \in NormConfs } \cup { NormRaises }

\* d.get("confidence", 0)
GetConfidence(d) == IF d.confidence.kind = "absent" THEN Num(0) ELSE d.confidence

\* Comparing None with a number raises TypeError.
Comparable(a, b) == a.kind = "num" /\ b.kind = "num"

\* if new_conf >= self.threshold   (the mutant: >)
MeetsThreshold_Strict(new_conf, t) == new_conf.v > t
MeetsThreshold(new_conf, t) == new_conf.v >= t

\* if new_conf <= last_conf   (the mutant: <)
NoImprovement_Strict(new_conf, last) == new_conf.v < last.v
NoImprovement(new_conf, last) == new_conf.v <= last.v

\* for i in range(self.max_iters): another iteration follows  (the mutant
\* runs one iteration more)
MoreIterations_OneMore(n, m) == n <= m
MoreIterations(n, m) == n < m

\* current = refined   (the mutant forgets the assignment)
Accepted_Stale(new, cur) == cur
Accepted(new, cur) == new

InitRefine ==
    /\ threshold \in Thresholds
    /\ max_iters \in 0 .. MaxIters
    /\ raw_vision \in { Cand(0, c) : c \in RawConfs }
    /\ rl_pc = "start"
    /\ current = None
    /\ last_conf = None
    /\ iters = 0
    /\ refined = None
    /\ calls = 0
    /\ hist = << >>
    /\ ret = None
    /\ rl_err = None

\* lines 58-63
RefineStart ==
    /\ rl_pc = "start"
    /\ rl_pc' = "loop"
    /\ current' = Some(raw_vision)
    /\ last_conf' = Some(GetConfidence(raw_vision))
    /\ iters' = 0
    /\ UNCHANGED <<threshold, max_iters, raw_vision, refined, calls, hist, ret, rl_err>>

RefineRaise(e) ==
    /\ rl_pc' = "raised"
    /\ rl_err' = Some(e)
    /\ UNCHANGED <<current, last_conf, ret>>

RefineReturn(cand, n, branch) ==
    /\ rl_pc' = "returned"
    /\ ret' = Some([cand |-> cand, iters |-> n, branch |-> branch])
    /\ UNCHANGED <<current, last_conf, rl_err>>

\* line 71: geo_agent.refine_location raises and nothing in refine catches it
\* (the mutant: the failure is swallowed and the loop goes on)
OnNormalizerFailure_Retried(e) ==
    UNCHANGED <<rl_pc, rl_err, current, last_conf, ret, refined, hist>>
OnNormalizerFailure(e) ==
    /\ RefineRaise(e)
    /\ UNCHANGED <<refined, hist>>

\* lines 66-87: one pass of the loop body, around one geo_agent call
RefineIterate ==
    /\ rl_pc = "loop"
    /\ MoreIterations(iters, max_iters)
    /\ iters' = iters + 1
    /\ calls' = calls + 1
    /\ \E out \in NormOutcomes :
         IF out.raises
         THEN OnNormalizerFailure("RefinementError")
         ELSE LET new == Cand(calls + 1, out.confidence)
                  new_conf == GetConfidence(new)
              IN  /\ refined' = Some(new)
                  /\ hist' = Append(hist, [new_conf |-> new_conf, last_conf |-> last_conf[1],
                                            input |-> current[1]])
                  /\ IF new_conf.kind # "num"
                     THEN RefineRaise("TypeError")
                     ELSE IF MeetsThreshold(new_conf, threshold)
                     THEN RefineReturn(new, iters + 1, "threshold")
                     ELSE IF last_conf[1].kind # "num"
                     THEN RefineRaise("TypeError")
                     ELSE IF NoImprovement(new_conf, last_conf[1])
                     THEN RefineReturn(new, iters + 1, "no_improvement")
                     ELSE /\ current' = Some(Accepted(new, current[1]))
                          /\ last_conf' = Some(new_conf)
                          /\ UNCHANGED <<rl_pc, ret, rl_err>>
    /\ UNCHANGED <<threshold, max_iters, raw_vision>>

\* lines 89-91: the range is exhausted
RefineExhausted ==
    /\ rl_pc = "loop"
    /\ ~ MoreIterations(iters, max_iters)
    /\ RefineReturn(current[1], iters, "exhausted")
    /\ UNCHANGED <<threshold, max_iters, raw_vision, iters, refined, calls, hist>>

\* ========================================================= metrics store
Threads == 1 .. NumThreads
Keys == {"x", "y"}
Amounts == {1, 3}

\* A dict is the sequence of its items [key, value] in the order the keys were
\* first inserted, which is the order Python iterates it in.
EmptyDict == << >>

\* key in d, and the position of its item
Has(d, key) == \E i \in 1 .. Len(d) : d[i].key = key
Index(d, key) == CHOOSE i \in 1 .. Len(d) : d[i].key = key

\* d.get(key, default)
Get(d, key, default) == IF Has(d, key) THEN d[Index(d, key)].value ELSE default

\* d.get(key) as an optional value: None when the key is absent
Lookup(d, key) == IF Has(d, key) THEN Some(d[Index(d, key)].value) ELSE None

\* d[key] = value: a present key keeps its position, a new key goes last
\* (the mutant: d = {key: value})
Put_Alone(d, key, value) == <<[key |-> key, value |-> value]>>
Put(d, key, value) ==
    IF Has(d, key)
    THEN [d EXCEPT ![Index(d, key)] = [key |-> key, value |-> value]]
    ELSE Append(d, [key |-> key, value |-> value])

\* with _METRICS_LOCK: the lock can be taken   (the mutant: no mutual exclusion)
LockFree_Always == TRUE
LockFree == lock = 0

\* __exit__: return False, the exception is not suppressed   (the mutant: True)
ExitSuppresses_True == TRUE
ExitSuppresses == FALSE

\* duration = end - self.start
Duration(end, start) == end - start

\* line 58-60: the with block of __exit__ ends, the lock is free again
ExitReleased_Kept(t) == t
ExitReleased(t) == 0

InitObs ==
    /\ lock = 0
    /\ metrics = [counters |-> EmptyDict, latencies |-> EmptyDict, timings |-> EmptyDict]
    /\ now = 0
    /\ th_pc = [t \in Threads |-> "idle"]
    /\ th_key = [t \in Threads |-> "x"]
    /\ th_amount = [t \in Threads |-> 0]
    /\ th_tmp = [t \in Threads |-> 0]
    /\ th_scopes = [t \in Threads |-> << >>]
    /\ th_exc = [t \in Threads |-> FALSE]
    /\ th_result = [t \in Threads |-> "running"]
    /\ ops = 0
    /\ incReturned = [t \in Threads |-> [k \in Keys |-> 0]]
    /\ th_val = [t \in Threads |-> [type |-> "int", v |-> 0]]
    /\ th_part = [t \in Threads |-> << >>]
    /\ th_snap = [t \in Threads |-> None]
    /\ latencyCalls = [k \in Keys |-> << >>]
    /\ th_render = [t \in Threads |-> FALSE]
    /\ rendered = << >>

\* thread t may begin an operation
CanBegin(t) ==
    /\ th_pc[t] = "idle"
    /\ ~ th_exc[t]
    /\ th_result[t] = "running"
    /\ ops < MaxOps

\* time passes
Tick ==
    /\ now < MaxClock
    /\ now' = now + 1
    /\ UNCHANGED <<lock, metrics, th_pc, th_key, th_amount, th_tmp, th_scopes,
                   th_exc, th_result, ops, incReturned>>

\* inc(key, amount) is called
IncCall(t, key, amount) ==
    /\ CanBegin(t)
    /\ ops' = ops + 1
    /\ th_pc' = [th_pc EXCEPT ![t] = "inc_acquire"]
    /\ th_key' = [th_key EXCEPT ![t] = key]
    /\ th_amount' = [th_amount EXCEPT ![t] = amount]
    /\ UNCHANGED <<lock, metrics, now, th_tmp, th_scopes, th_exc, th_result, incReturned>>

\* line 23: with _METRICS_LOCK
IncAcquire(t) ==
    /\ th_pc[t] = "inc_acquire"
    /\ LockFree
    /\ lock' = t
    /\ th_pc' = [th_pc EXCEPT ![t] = "inc_read"]
    /\ UNCHANGED <<metrics, now, th_key, th_amount, th_tmp, th_scopes, th_exc,
                   th_result, ops, incReturned>>

\* line 24, right-hand side: _METRICS["counters"].get(key, 0) + amount
IncRead(t) ==
    /\ th_pc[t] = "inc_read"
    /\ th_tmp' = [th_tmp EXCEPT ![t] = Get(metrics.counters, th_key[t], 0) + th_amount[t]]
    /\ th_pc' = [th_pc EXCEPT ![t] = "inc_write"]
    /\ UNCHANGED <<lock, metrics, now, th_key, th_amount, th_scopes, th_exc,
                   th_result, ops, incReturned>>

\* line 24, the store; the with block ends and inc returns (its locals die)
IncWrite(t) ==
    /\ th_pc[t] = "inc_write"
    /\ metrics' = [metrics EXCEPT !.counters = Put(@, th_key[t], th_tmp[t])]
    /\ lock' = 0
    /\ th_pc' = [th_pc EXCEPT ![t] = "idle"]
    /\ incReturned' = [incReturned EXCEPT ![t][th_key[t]] = @ + th_amount[t]]
    /\ th_key' = [th_key EXCEPT ![t] = "x"]
    /\ th_amount' = [th_amount EXCEPT ![t] = 0]
    /\ th_tmp' = [th_tmp EXCEPT ![t] = 0]
    /\ UNCHANGED <<now, th_scopes, th_exc, th_result, ops>>

\* lines 46-52: with timer(key): __init__ and __enter__
TimerEnter(t, key) ==
    /\ CanBegin(t)
    /\ Len(th_scopes[t]) < MaxDepth
    /\ ops' = ops + 1
    /\ th_scopes' = [th_scopes EXCEPT ![t] = Append(@, [key |-> key, start |-> now])]
    /\ UNCHANGED <<lock, metrics, now, th_pc, th_key, th_amount, th_tmp, th_exc,
                   th_result, incReturned>>

\* the operation wrapped by the innermost scope raises
BodyRaises(t) ==
    /\ CanBegin(t)
    /\ th_scopes[t] # << >>
    /\ ops' = ops + 1
    /\ th_exc' = [th_exc EXCEPT ![t] = TRUE]
    /\ UNCHANGED <<lock, metrics, now, th_pc, th_key, th_amount, th_tmp, th_scopes,
                   th_result, incReturned>>

\* lines 55-56: the innermost scope is left, normally or by the exception
TimerExit(t) ==
    /\ th_pc[t] = "idle"
    /\ th_scopes[t] # << >>
    /\ LET self == th_scopes[t][Len(th_scopes[t])]
       IN  /\ th_key' = [th_key EXCEPT ![t] = self.key]
           /\ th_tmp' = [th_tmp EXCEPT ![t] = Duration(now, self.start)]
    /\ th_pc' = [th_pc EXCEPT ![t] = "exit_acquire"]
    /\ UNCHANGED <<lock, metrics, now, th_amount, th_scopes, th_exc, th_result,
                   ops, incReturned>>

\* line 58: with _METRICS_LOCK
ExitAcquire(t) ==
    /\ th_pc[t] = "exit_acquire"
    /\ LockFree
    /\ lock' = t
    /\ th_pc' = [th_pc EXCEPT ![t] = "exit_write"]
    /\ UNCHANGED <<metrics, now, th_key, th_amount, th_tmp, th_scopes, th_exc,
                   th_result, ops, incReturned>>

\* lines 60-61: the store; the with block ends; return False (the locals die)
ExitWrite(t) ==
    /\ th_pc[t] = "exit_write"
    /\ metrics' = [metrics EXCEPT !.timings = Put(@, th_key[t], th_tmp[t])]
    /\ lock' = ExitReleased(t)
    /\ th_scopes' = [th_scopes EXCEPT ![t] = SubSeq(@, 1, Len(@) - 1)]
    /\ th_exc' = [th_exc EXCEPT ![t] = @ /\ ~ ExitSuppresses]
    /\ th_pc' = [th_pc EXCEPT ![t] = "idle"]
    /\ th_key' = [th_key EXCEPT ![t] = "x"]
    /\ th_tmp' = [th_tmp EXCEPT ![t] = 0]
    /\ UNCHANGED <<now, th_amount, th_result, ops, incReturned>>

\* the exception has left the outermost scope: the caller of the scope sees it
Propagate(t) ==
    /\ th_pc[t] = "idle"
    /\ th_exc[t]
    /\ th_scopes[t] = << >>
    /\ th_result[t] = "running"
    /\ th_result' = [th_result EXCEPT ![t] = "raised"]
    /\ UNCHANGED <<lock, metrics, now, th_pc, th_key, th_amount, th_tmp, th_scopes,
                   th_exc, ops, incReturned>>

\* ------------------------------------------------------------ record_latency
\* A number as a caller passes it: an int (the default 0 of a dict.get) or a
\* float (a duration).
IntNum(n) == [type |-> "int", v |-> n]
FloatNum(n) == [type |-> "float", v |-> n]
LatencyValues == {IntNum(0), FloatNum(2)}

\* float(value): the same number, as a float
Float(x) == [type |-> "float", v |-> x.v]

\* Python's == on numbers: an int and a float are equal when their values are
NumEq(a, b) == a.v = b.v

\* line 33: _METRICS["latencies"][key] = float(value)   (the mutant: +=)
LatencyStored_Accumulated(d, key, value) ==
    Put(d, key, Float([value EXCEPT !.v = Get(d, key, FloatNum(0)).v + @]))
LatencyStored(d, key, value) == Put(d, key, Float(value))

\* record_latency(key, value) is called
LatCall(t, key, value) ==
    /\ CanBegin(t)
    /\ ops' = ops + 1
    /\ th_pc' = [th_pc EXCEPT ![t] = "lat_acquire"]
    /\ th_key' = [th_key EXCEPT ![t] = key]
    /\ th_val' = [th_val EXCEPT ![t] = value]
    /\ UNCHANGED <<lock, metrics, now, th_amount, th_tmp, th_scopes, th_exc, th_result,
                   incReturned, th_part, th_snap, latencyCalls>>

\* line 32: with _METRICS_LOCK
LatAcquire(t) ==
    /\ th_pc[t] = "lat_acquire"
    /\ LockFree
    /\ lock' = t
    /\ th_pc' = [th_pc EXCEPT ![t] = "lat_write"]
    /\ UNCHANGED <<metrics, now, th_key, th_amount, th_tmp, th_scopes, th_exc,
                   th_result, ops, incReturned, snapVars>>

\* line 33, the store; the with block ends and record_latency returns
LatWrite(t) ==
    /\ th_pc[t] = "lat_write"
    /\ metrics' = [metrics EXCEPT !.latencies = LatencyStored(@, th_key[t], th_val[t])]
    /\ latencyCalls' = [latencyCalls EXCEPT ![th_key[t]] = Append(@, th_val[t])]
    /\ lock' = 0
    /\ th_pc' = [th_pc EXCEPT ![t] = "idle"]
    /\ th_key' = [th_key EXCEPT ![t] = "x"]
    /\ th_val' = [th_val EXCEPT ![t] = IntNum(0)]
    /\ UNCHANGED <<now, th_amount, th_tmp, th_scopes, th_exc, th_result, ops,
                   incReturned, th_part, th_snap>>

\* --------------------------------------------------------------- get_metrics
\* The keys of the returned dict, in the order the dict display evaluates
\* their values (lines 71-73).
Groups == <<"counters", "latencies", "timings">>

\* A reference to a dict object: either to one of the three dicts of _METRICS
\* (alias, the content is whatever the store holds) or to an object of its own.
\* dict(d) makes a new object with the items of d   (the mutant: d itself)
DictCopy_SameObject(d) == [alias |-> TRUE, d |-> EmptyDict]
DictCopy(d) == [alias |-> FALSE, d |-> d]

\* the items seen through a reference to the dict of one group
Deref(h, live) == IF h.alias THEN live ELSE h.d

\* get_metrics() is called
SnapCall(t) ==
    /\ CanBegin(t)
    /\ ops' = ops + 1
    /\ th_pc' = [th_pc EXCEPT ![t] = "snap_acquire"]
    /\ UNCHANGED <<lock, metrics, now, th_key, th_amount, th_tmp, th_scopes, th_exc,
                   th_result, incReturned, snapVars>>

\* line 69: with _METRICS_LOCK
SnapAcquire(t) ==
    /\ th_pc[t] = "snap_acquire"
    /\ LockFree
    /\ lock' = t
    /\ th_pc' = [th_pc EXCEPT ![t] = "snap_copy"]
    /\ UNCHANGED <<metrics, now, th_key, th_amount, th_tmp, th_scopes, th_exc,
                   th_result, ops, incReturned, snapVars>>

\* lines 71-72: dict(_METRICS["counters"]), then dict(_METRICS["latencies"])
SnapCopy(t) ==
    /\ th_pc[t] = "snap_copy"
    /\ Len(th_part[t]) < 2
    /\ th_part' = [th_part EXCEPT ![t] = Append(@, DictCopy(metrics[Groups[Len(@) + 1]]))]
    /\ UNCHANGED <<lock, metrics, now, th_pc, th_key, th_amount, th_tmp, th_scopes,
                   th_exc, th_result, ops, incReturned, th_val, th_snap, latencyCalls>>

\* line 73: dict(_METRICS["timings"]); the with block ends and the dict is
\* returned to the caller
SnapReturn(t) ==
    /\ th_pc[t] = "snap_copy"
    /\ Len(th_part[t]) = 2
    /\ ~ th_render[t]
    /\ th_snap' = [th_snap EXCEPT ![t] =
                      Some([counters |-> th_part[t][1],
                            latencies |-> th_part[t][2],
                            timings |-> DictCopy(metrics.timings)])]
    /\ th_part' = [th_part EXCEPT ![t] = << >>]
    /\ lock' = 0
    /\ th_pc' = [th_pc EXCEPT ![t] = "idle"]
    /\ UNCHANGED <<metrics, now, th_key, th_amount, th_tmp, th_scopes, th_exc,
                   th_result, ops, incReturned, th_val, latencyCalls>>

\* a value a caller writes into a dict it was handed
CallerValue(group) == IF group = "latencies" THEN FloatNum(9) ELSE 9

\* the caller assigns snapshot[group][key] = value in the dict it was returned
MutateSnapshot(t, group, key) ==
    /\ CanBegin(t)
    /\ th_snap[t] # None
    /\ ops' = ops + 1
    /\ LET h == th_snap[t][1][group]
       IN  IF h.alias
           THEN /\ metrics' = [metrics EXCEPT ![group] = Put(@, key, CallerValue(group))]
                /\ UNCHANGED th_snap
           ELSE /\ th_snap' = [th_snap EXCEPT ![t] =
                      Some([@[1] EXCEPT ![group] =
                              [alias |-> FALSE, d |-> Put(h.d, key, CallerValue(group))]])]
                /\ UNCHANGED metrics
    /\ UNCHANGED <<lock, now, th_pc, th_key, th_amount, th_tmp, th_scopes, th_exc,
                   th_result, incReturned, th_val, th_part, latencyCalls>>

\* ================================================================ dashboard
\* format_observability_dashboard() is called: line 4, metrics = get_metrics()
RenderCall(t) ==
    /\ th_pc[t] = "idle"
    /\ ~ th_exc[t]
    /\ th_result[t] = "running"
    /\ Len(rendered) + Cardinality({u \in Threads : th_render[u]}) < MaxRenders
    /\ th_render' = [th_render EXCEPT ![t] = TRUE]
    /\ th_pc' = [th_pc EXCEPT ![t] = "snap_acquire"]
    /\ UNCHANGED <<lock, metrics, now, th_key, th_amount, th_tmp, th_scopes, th_exc,
                   th_result, ops, incReturned, snapVars, rendered>>

\* obs.py line 73, from inside the formatter: dict(_METRICS["timings"]); the
\* with block ends and the dict is returned into the formatter's local metrics
SnapReturnToFormatter(t) ==
    /\ th_pc[t] = "snap_copy"
    /\ Len(th_part[t]) = 2
    /\ th_render[t]
    /\ th_part' = [th_part EXCEPT ![t] = Append(@, DictCopy(metrics.timings))]
    /\ lock' = 0
    /\ th_pc' = [th_pc EXCEPT ![t] = "render_format"]
    /\ UNCHANGED <<metrics, now, th_key, th_amount, th_tmp, th_scopes, th_exc,
                   th_result, ops, incReturned, th_val, th_snap, latencyCalls, dashVars>>

\* key.replace('_', ' ').title(), for the keys of the model
Title(key) ==
    CASE key = "x" -> "X"
      [] key = "y" -> "Y"
      [] key = "frame_extraction" -> "Frame Extraction"
      [] key = "vision_parallel" -> "Vision Parallel"
      [] key = "geo_refinement" -> "Geo Refinement"
      [] key = "places_api" -> "Places Api"
      [] key = "itinerary_generation" -> "Itinerary Generation"
      [] key = "vision_parallel_latency" -> "Vision Parallel Latency"
      [] key = "geo_refinement_latency" -> "Geo Refinement Latency"
      [] key = "places_latency" -> "Places Latency"
      [] key = "itinerary_latency" -> "Itinerary Latency"
      [] key = "frames_extracted" -> "Frames Extracted"
      [] key = "vision_parallel_calls" -> "Vision Parallel Calls"
      [] key = "geo_refinement_iterations" -> "Geo Refinement Iterations"

\* One line of the text. A number is shown by its digits: its whole part, how
\* many decimals follow (durations are whole clock ticks here, so f"{val:.2f}"
\* shows two zeros), and the unit.
HeaderLine == [kind |-> "header", label |-> "OBSERVABILITY DASHBOARD", whole |-> 0,
               decimals |-> 0, unit |-> ""]
RuleLine == [kind |-> "rule", label |-> "", whole |-> 0, decimals |-> 0, unit |-> ""]
BlankLine == [kind |-> "blank", label |-> "", whole |-> 0, decimals |-> 0, unit |-> ""]
MetricLine(group, item) ==
    [kind |-> "metric",
     label |-> Title(item.key),
     whole |-> IF group = "latencies" THEN item.value.v ELSE item.value,
     decimals |-> IF group = "counters" THEN 0 ELSE 2,
     unit |-> IF group = "counters" THEN "" ELSE "s"]

\* for key, val in d.items(): lines.append(...)
RECURSIVE MetricLines(_, _)
MetricLines(group, d) ==
    IF d = << >> THEN << >>
    ELSE <<MetricLine(group, Head(d))>> \o MetricLines(group, Tail(d))

\* lines 6-44: the lines of the text, in order
Render_CountersFirst(snap) ==
    <<HeaderLine, RuleLine>>
    \o MetricLines("counters", snap.counters)
    \o MetricLines("timings", snap.timings)
    \o (IF snap.timings # << >> THEN <<BlankLine>> ELSE << >>)
    \o MetricLines("latencies", snap.latencies)
    \o (IF snap.latencies # << >> THEN <<BlankLine>> ELSE << >>)
Render(snap) ==
    <<HeaderLine, RuleLine>>
    \o MetricLines("timings", snap.timings)
    \o (IF snap.timings # << >> THEN <<BlankLine>> ELSE << >>)
    \o MetricLines("latencies", snap.latencies)
    \o (IF snap.latencies # << >> THEN <<BlankLine>> ELSE << >>)
    \o MetricLines("counters", snap.counters)

\* the dict the formatter's get_metrics call returned to it
LocalMetrics(t) ==
    [counters |-> Deref(th_part[t][1], metrics.counters),
     latencies |-> Deref(th_part[t][2], metrics.latencies),
     timings |-> Deref(th_part[t][3], metrics.timings)]

\* lines 6-8: what the formatter reads the three groups from: its local dict
\* rather than the store
RenderSource_Live(t) == metrics
RenderSource(t) == LocalMetrics(t)

\* lines 6-44: the text is built and returned
RenderFormat(t) ==
    /\ th_pc[t] = "render_format"
    /\ rendered' = Append(rendered, [snap |-> LocalMetrics(t),
                                     text |-> Render(RenderSource(t))])
    /\ th_render' = [th_render EXCEPT ![t] = FALSE]
    /\ th_part' = [th_part EXCEPT ![t] = << >>]
    /\ th_pc' = [th_pc EXCEPT ![t] = "idle"]
    /\ UNCHANGED <<lock, metrics, now, th_key, th_amount, th_tmp, th_scopes, th_exc,
                   th_result, ops, incReturned, th_val, th_snap, latencyCalls>>

\* ======================================================== the pipeline
\* plan_itinerary_from_reel, analyze_reel, fetch_city_places and
\* _google_places_search run as one task; a dict is the set of its keys
\* with the values the pipeline looks at.

\* len(frame_paths) of a successful extraction (never empty, extract_frames.py
\* line 57), and the iterations a RefinementLoop(max_iters=3) reports.
FrameCounts == {1, 8}
IterCounts == {1, 2, 3}

\* the store after inc(key, amount), record_latency(key, value), and after a
\* timer scope is left at clock reading end
AfterInc_Reset(m, key, amount) == [m EXCEPT !.counters = Put(@, key, amount)]
AfterInc(m, key, amount) == [m EXCEPT !.counters = Put(@, key, Get(@, key, 0) + amount)]
AfterRecordLatency(m, key, value) == [m EXCEPT !.latencies = LatencyStored(@, key, value)]
AfterTimerExit(m, scope, end) ==
    [m EXCEPT !.timings = Put(@, scope.key, Duration(end, scope.start))]

\* get_metrics().get(key, 0): the returned dict has the keys of Groups
TopLevelGet(m, key) ==
    IF \E i \in 1 .. Len(Groups) : Groups[i] = key THEN m[key] ELSE IntNum(0)

\* get_metrics()["timings"].get(key, 0): a recorded duration, or the int 0
TimingGet(m, key) ==
    IF Has(m.timings, key) THEN FloatNum(Get(m.timings, key, 0)) ELSE IntNum(0)

\* with timer(key): the scope is entered
Entered(scopes, key) == Append(scopes, [key |-> key, start |-> now])
Innermost(scopes) == scopes[Len(scopes)]
Left(scopes) == SubSeq(scopes, 1, Len(scopes) - 1)

\* the dicts the tools return
ReelError(msg) == [keys |-> {"error", "video_path"}, stage |-> "", error |-> msg]
LocationInfo(extra) ==
    [keys |-> {"city", "country", "region", "confidence", "sampled_frames"} \cup extra,
     stage |-> "", error |-> IF "error" \in extra THEN "reported by the model" ELSE ""]
PlacesError(msg) == [keys |-> {"error", "city"}, stage |-> "", error |-> msg]
PlacesOk == [keys |-> {"city", "place_type", "results"}, stage |-> "", error |-> ""]
Tagged(stage, msg) == [keys |-> {"stage", "error"}, stage |-> stage, error |-> msg]
Itinerary ==
    [keys |-> {"city", "country", "region", "landmarks", "places", "itinerary_markdown"},
     stage |-> "", error |-> ""]

\* line 224 and line 346: except Exception   (the mutant: analyze_reel has no
\* handler)
AnalyzeReelCatches_No == FALSE
AnalyzeReelCatches == TRUE
PlanCatches == TRUE

\* lines 293 and 312: if "error" in location_info / in places_resp
HasError_Never(d) == FALSE
HasError(d) == "error" \in d.keys

\* where control goes next, and what has been returned
Goto(pc) ==
    /\ pl_pc' = pc
    /\ UNCHANGED <<ar_result, places_resp, pl_result>>
PlanReturns(d) ==
    /\ pl_pc' = "returned"
    /\ pl_result' = Some(d)
    /\ UNCHANGED <<ar_result, places_resp>>
\* an exception reaches the body of plan_itinerary_from_reel (lines 346-348)
PlanRaises(msg) ==
    IF PlanCatches
    THEN PlanReturns(Tagged("plan_itinerary_from_reel", msg))
    ELSE /\ pl_pc' = "raised"
         /\ UNCHANGED <<ar_result, places_resp, pl_result>>
ReelReturns(d) ==
    /\ pl_pc' = "reel_returned"
    /\ ar_result' = Some(d)
    /\ UNCHANGED <<places_resp, pl_result>>
\* an exception reaches the body of analyze_reel (lines 224-229)
ReelRaises(msg) ==
    IF AnalyzeReelCatches THEN ReelReturns(ReelError(msg)) ELSE PlanRaises(msg)
PlacesReturns(d) ==
    /\ pl_pc' = "places_returned"
    /\ places_resp' = Some(d)
    /\ UNCHANGED <<ar_result, pl_result>>

obsRest == <<lock, th_pc, th_key, th_amount, th_tmp, th_scopes, th_exc, th_result, ops,
             incReturned>>

InitPipeline ==
    /\ pl_pc = "start"
    /\ pl_scopes = << >>
    /\ ar_result = None
    /\ places_resp = None
    /\ pl_result = None
    /\ fault = None
    /\ started = << >>
    /\ reels = << >>
    /\ lock = 0
    /\ metrics = [counters |-> EmptyDict, latencies |-> EmptyDict, timings |-> EmptyDict]
    /\ now = 0
    /\ th_pc = << >> /\ th_key = << >> /\ th_amount = << >> /\ th_tmp = << >>
    /\ th_scopes = << >> /\ th_exc = << >> /\ th_result = << >>
    /\ ops = 0
    /\ incReturned = << >>
    /\ th_val = << >> /\ th_part = << >> /\ th_snap = << >> /\ latencyCalls = << >>
    /\ th_render = << >> /\ rendered = << >>

\* lines 292, 144-157: plan_itinerary_from_reel calls analyze_reel, which
\* enters the frame_extraction scope
PlanCall ==
    /\ pl_pc = "start"
    /\ started' = Append(started, "analyze_reel")
    /\ reels' = Append(reels, [vision |-> FALSE, refinement |-> FALSE, iters |-> 0])
    /\ pl_scopes' = Entered(pl_scopes, "frame_extraction")
    /\ Goto("extracting")
    /\ UNCHANGED <<metrics, fault>>

\* lines 157-165: extract_key_frames returns the frame paths or raises; the
\* scope is left either way; inc("frames_extracted", len(frame_paths))
ExtractFrames ==
    /\ pl_pc = "extracting"
    /\ pl_scopes' = Left(pl_scopes)
    /\ \E ok \in BOOLEAN, n \in FrameCounts :
         LET timed == AfterTimerExit(metrics, Innermost(pl_scopes), now)
         IN  IF ok
             THEN /\ metrics' = AfterInc(timed, "frames_extracted", n)
                  /\ Goto("engine")
                  /\ UNCHANGED fault
             ELSE /\ metrics' = timed
                  /\ fault' = Some("frame_extraction")
                  /\ ReelRaises("frame_extraction")
    /\ UNCHANGED started

\* lines 173-176: ParallelVisionEngine(num_agents=3) constructs its
\* VisionAgents (RuntimeError without GOOGLE_API_KEY); the vision_parallel
\* scope is entered
ConstructEngine ==
    /\ pl_pc = "engine"
    /\ \E ok \in BOOLEAN :
         IF ok
         THEN /\ pl_scopes' = Entered(pl_scopes, "vision_parallel")
              /\ Goto("inferring")
              /\ UNCHANGED fault
         ELSE /\ fault' = Some("vision_credentials")
              /\ ReelRaises("vision_credentials")
              /\ UNCHANGED pl_scopes
    /\ UNCHANGED <<metrics, started>>

\* lines 176-187: vision_engine.analyze returns or raises; the scope is left;
\* inc("vision_parallel_calls", 1); record_latency of the recorded timing
Inference ==
    /\ pl_pc = "inferring"
    /\ pl_scopes' = Left(pl_scopes)
    /\ \E ok \in BOOLEAN :
         LET timed == AfterTimerExit(metrics, Innermost(pl_scopes), now)
             counted == AfterInc(timed, "vision_parallel_calls", 1)
         IN  IF ok
             THEN /\ metrics' = AfterRecordLatency(counted, "vision_parallel_latency",
                                                   TimingGet(counted, "vision_parallel"))
                  /\ reels' = [reels EXCEPT ![Len(reels)].vision = TRUE]
                  /\ Goto("geo")
                  /\ UNCHANGED fault
             ELSE /\ metrics' = timed
                  /\ fault' = Some("parallel_inference")
                  /\ ReelRaises("parallel_inference")
                  /\ UNCHANGED reels
    /\ UNCHANGED started

\* lines 197-201: GeoAgent() (RuntimeError without GOOGLE_API_KEY); the
\* geo_refinement scope is entered
ConstructGeo ==
    /\ pl_pc = "geo"
    /\ \E ok \in BOOLEAN :
         IF ok
         THEN /\ pl_scopes' = Entered(pl_scopes, "geo_refinement")
              /\ Goto("refining")
              /\ UNCHANGED fault
         ELSE /\ fault' = Some("geo_credentials")
              /\ ReelRaises("geo_credentials")
              /\ UNCHANGED pl_scopes
    /\ UNCHANGED <<metrics, started>>

\* lines 201-221: refiner.refine returns (location_info, iters) or raises; the
\* scope is left; inc("geo_refinement_iterations", iters); record_latency;
\* location_info is returned (the model's JSON may itself hold an "error" key)
Refinement ==
    /\ pl_pc = "refining"
    /\ pl_scopes' = Left(pl_scopes)
    /\ \E ok \in BOOLEAN, n \in IterCounts, extra \in {{}, {"error"}} :
         LET timed == AfterTimerExit(metrics, Innermost(pl_scopes), now)
             counted == AfterInc(timed, "geo_refinement_iterations", n)
         IN  IF ok
             THEN /\ metrics' = AfterRecordLatency(counted, "geo_refinement_latency",
                                                   TimingGet(counted, "geo_refinement"))
                  /\ reels' = [reels EXCEPT ![Len(reels)].refinement = TRUE,
                                             ![Len(reels)].iters = n]
                  /\ ReelReturns(LocationInfo(extra))
                  /\ UNCHANGED fault
             ELSE /\ metrics' = timed
                  /\ fault' = Some("refinement")
                  /\ ReelRaises("refinement")
                  /\ UNCHANGED reels
    /\ UNCHANGED started

\* lines 293-304, 249-254, 89: the "error" check on analyze_reel's dict; then
\* the places_api scope of plan_itinerary_from_reel is entered, fetch_city_places
\* is called and enters its own places_api scope, and calls _google_places_search
PlanChecksLocation ==
    /\ pl_pc = "reel_returned"
    /\ IF HasError(ar_result[1])
       THEN /\ PlanReturns(Tagged("analyze_reel", ar_result[1].error))
            /\ UNCHANGED <<pl_scopes, started>>
       ELSE /\ pl_scopes' = Entered(Entered(pl_scopes, "places_api"), "places_api")
            /\ started' = Append(started, "fetch_city_places")
            /\ Goto("places_key")
    /\ UNCHANGED <<metrics, fault>>

\* lines 89-101, 265-267: GOOGLE_PLACES_API_KEY is read; without it RuntimeError
\* leaves fetch_city_places' scope and is caught there; with it the scope of
\* _google_places_search is entered
PlacesKey ==
    /\ pl_pc = "places_key"
    /\ \E ok \in BOOLEAN :
         IF ok
         THEN /\ pl_scopes' = Entered(pl_scopes, "places_api")
              /\ Goto("requesting")
              /\ UNCHANGED <<metrics, fault>>
         ELSE /\ metrics' = AfterTimerExit(metrics, Innermost(pl_scopes), now)
              /\ pl_scopes' = Left(pl_scopes)
              /\ fault' = Some("places_credentials")
              /\ PlacesReturns(PlacesError("places_credentials"))
    /\ UNCHANGED started

\* lines 101-122, 253-267: requests.get, raise_for_status and json return or
\* raise; both scopes are left; on success each function records
\* places_latency and fetch_city_places returns the places
PlacesRequest ==
    /\ pl_pc = "requesting"
    /\ pl_scopes' = Left(Left(pl_scopes))
    /\ \E ok \in BOOLEAN :
         LET inner == AfterTimerExit(metrics, Innermost(pl_scopes), now)
             searched == AfterRecordLatency(inner, "places_latency",
                                            TopLevelGet(inner, "places_api"))
             middle == AfterTimerExit(searched, Innermost(Left(pl_scopes)), now)
         IN  IF ok
             THEN /\ metrics' = AfterRecordLatency(middle, "places_latency",
                                                   TopLevelGet(middle, "places_api"))
                  /\ PlacesReturns(PlacesOk)
                  /\ UNCHANGED fault
             ELSE /\ metrics' = AfterTimerExit(inner, Innermost(Left(pl_scopes)), now)
                  /\ fault' = Some("places_search")
                  /\ PlacesReturns(PlacesError("places_search"))
    /\ UNCHANGED started

\* lines 302-313: the scope of plan_itinerary_from_reel is left; places_latency
\* is recorded; the "error" check on fetch_city_places' dict
PlanChecksPlaces ==
    /\ pl_pc = "places_returned"
    /\ pl_scopes' = Left(pl_scopes)
    /\ LET timed == AfterTimerExit(metrics, Innermost(pl_scopes), now)
       IN  metrics' = AfterRecordLatency(timed, "places_latency",
                                         TopLevelGet(timed, "places_api"))
    /\ IF HasError(places_resp[1])
       THEN PlanReturns(Tagged("fetch_city_places", places_resp[1].error))
       ELSE Goto("itinerary")
    /\ UNCHANGED <<fault, started>>

\* lines 316-318: ItineraryAgent() (RuntimeError without GOOGLE_API_KEY); the
\* itinerary_generation scope is entered
ConstructItinerary ==
    /\ pl_pc = "itinerary"
    /\ started' = Append(started, "build_itinerary")
    /\ \E ok \in BOOLEAN :
         IF ok
         THEN /\ pl_scopes' = Entered(pl_scopes, "itinerary_generation")
              /\ Goto("composing")
              /\ UNCHANGED fault
         ELSE /\ fault' = Some("itinerary_credentials")
              /\ PlanRaises("itinerary_credentials")
              /\ UNCHANGED pl_scopes
    /\ UNCHANGED metrics

\* lines 318-344: build_itinerary returns the markdown or raises; the scope is
\* left; itinerary_latency is recorded; the dashboard is formatted from the
\* store (no other task runs in between); the itinerary dict is returned
Compose ==
    /\ pl_pc = "composing"
    /\ pl_scopes' = Left(pl_scopes)
    /\ \E ok \in BOOLEAN :
         LET timed == AfterTimerExit(metrics, Innermost(pl_scopes), now)
             final == AfterRecordLatency(timed, "itinerary_latency",
                                         TopLevelGet(timed, "itinerary_generation"))
         IN  IF ok
             THEN /\ metrics' = final
                  /\ rendered' = Append(rendered, [snap |-> final, text |-> Render(final)])
                  /\ PlanReturns(Itinerary)
                  /\ UNCHANGED fault
             ELSE /\ metrics' = timed
                  /\ fault' = Some("itinerary_composition")
                  /\ PlanRaises("itinerary_composition")
                  /\ UNCHANGED rendered
    /\ UNCHANGED started

\* The server takes the next plan_itinerary_from_reel request: the locals of
\* the finished invocation are gone, _METRICS is the module's and stays
PlanAgain ==
    /\ pl_pc = "returned"
    /\ Len(reels) < MaxRuns
    /\ pl_pc' = "start"
    /\ pl_scopes' = << >>
    /\ ar_result' = None
    /\ places_resp' = None
    /\ pl_result' = None
    /\ fault' = None
    /\ started' = << >>
    /\ UNCHANGED <<metrics, reels>>

\* ================================================= run_once and MemoryBank
\* The texts a caller may pass and the texts the runner's final events may
\* carry; run_once raises when the final text is empty.
Prompts == {"plan from reel", "where is this"}
Responses == {"itinerary for Paris", "it is Rome"}

\* f"USER: {prompt}" and f"ASSISTANT: {final_text}", and the " || " between
\* two entries of a compacted memory
UserEntry(prompt) == [role |-> "USER", text |-> prompt]
AssistantEntry(text) == [role |-> "ASSISTANT", text |-> text]
Separator == [role |-> " || ", text |-> ""]

\* memory_bank.py lines 9-10: MemoryBank() has no entries
NewMemoryBank == << >>
\* memory_bank.py line 14: self.entries.append(text)
Store(entries, text) == Append(entries, text)
\* memory_bank.py line 25: self.entries[-5:]
Recent(entries) ==
    IF Len(entries) <= 5 THEN entries ELSE SubSeq(entries, Len(entries) - 4, Len(entries))
\* memory_bank.py line 26: " || ".join(recent)
RECURSIVE Join(_)
Join(recent) ==
    IF Len(recent) <= 1 THEN recent
    ELSE <<Head(recent), Separator>> \o Join(Tail(recent))
\* memory_bank.py lines 21-26: compact()
Compact(entries) == IF entries = << >> THEN << >> ELSE Join(Recent(entries))

\* agent.py line 194: the MemoryBank a run_once call works with
BankOfCall == NewMemoryBank

InitMemory ==
    /\ ro_pc = "idle"
    /\ ro_raised = FALSE
    /\ memory_bank = << >>
    /\ stored = << >>
    /\ injected = << >>

\* agent.py lines 194-238: run_once(prompt) makes its MemoryBank, stores the
\* USER entry, compacts, builds the agent with that context and starts the
\* runner
RunOnceCall(prompt) ==
    /\ ro_pc = "idle"
    /\ Len(injected) < MaxCalls
    /\ LET bank == Store(BankOfCall, UserEntry(prompt))
       IN  /\ memory_bank' = bank
           /\ stored' = Append(stored, UserEntry(prompt))
           /\ injected' = Append(injected, [known |-> Append(stored, UserEntry(prompt)),
                                             context |-> Compact(bank)])
    /\ ro_raised' = FALSE
    /\ ro_pc' = "running"

\* agent.py lines 242-257: the final events carry text; the ASSISTANT entry
\* is stored and the text returned
RunOnceReturns(text) ==
    /\ ro_pc = "running"
    /\ memory_bank' = Store(memory_bank, AssistantEntry(text))
    /\ stored' = Append(stored, AssistantEntry(text))
    /\ ro_pc' = "idle"
    /\ UNCHANGED <<injected, ro_raised>>

\* agent.py lines 250-252: no final text: RuntimeError, nothing is stored
RunOnceRaises ==
    /\ ro_pc = "running"
    /\ ro_raised' = TRUE
    /\ ro_pc' = "idle"
    /\ UNCHANGED <<memory_bank, stored, injected>>

\* ========================================================= specifications
\* Each specification runs one component; the variables of the others stay
\* at one fixed initial value.
VisionParked ==
    /\ num_agents = 0
    /\ agentOut = << >>
    /\ pv_pc = "start"
    /\ worker = << >>
    /\ finished = << >>
    /\ results = << >>
    /\ best = None
    /\ pv_err = None

RefineParked ==
    /\ threshold = DefaultThreshold
    /\ max_iters = 0
    /\ raw_vision = Cand(0, AbsentConf)
    /\ rl_pc = "start"
    /\ current = None
    /\ last_conf = None
    /\ iters = 0
    /\ refined = None
    /\ calls = 0
    /\ hist = << >>
    /\ ret = None
    /\ rl_err = None

ObsParked ==
    /\ lock = 0
    /\ metrics = [counters |-> EmptyDict, latencies |-> EmptyDict, timings |-> EmptyDict]
    /\ now = 0
    /\ th_pc = << >>
    /\ th_key = << >>
    /\ th_amount = << >>
    /\ th_tmp = << >>
    /\ th_scopes = << >>
    /\ th_exc = << >>
    /\ th_result = << >>
    /\ ops = 0
    /\ incReturned = << >>
    /\ th_val = << >>
    /\ th_part = << >>
    /\ th_snap = << >>
    /\ latencyCalls = << >>
    /\ th_render = << >>
    /\ rendered = << >>

PipelineParked ==
    /\ pl_pc = "start"
    /\ pl_scopes = << >>
    /\ ar_result = None
    /\ places_resp = None
    /\ pl_result = None
    /\ fault = None
    /\ started = << >>
    /\ reels = << >>

MemoryParked ==
    /\ ro_pc = "idle"
    /\ ro_raised = FALSE
    /\ memory_bank = << >>
    /\ stored = << >>
    /\ injected = << >>

\* One analyze invocation, for every engine size and every assignment of
\* agent outcomes.
InitVisionSpec == InitVision /\ RefineParked /\ ObsParked /\ PipelineParked /\ MemoryParked
NextVisionSpec ==
    \/ Dispatch /\ UNCHANGED <<rlVars, obsVars, snapVars, dashVars, plVars, memVars>>
    \/ \E i \in Agents : RunAgent(i) /\ UNCHANGED <<rlVars, obsVars, snapVars, dashVars, plVars, memVars>>
    \/ AnalyzeRaises /\ UNCHANGED <<rlVars, obsVars, snapVars, dashVars, plVars, memVars>>
    \/ AnalyzeAggregates /\ UNCHANGED <<rlVars, obsVars, snapVars, dashVars, plVars, memVars>>
SpecVision == InitVisionSpec /\ [][NextVisionSpec]_vars

\* The same invocation with every agent either returning one fixed result or
\* raising, and with each executor thread scheduled: a worker that can
\* finish its analyze_frames call eventually does.
FairOutcomes == {Returns(WithLandmarks(<<LM(5)>>)), Raises}
InitVisionFair ==
    /\ num_agents \in 0 .. MaxAgents
    /\ agentOut \in [0 .. (num_agents - 1) -> FairOutcomes]
    /\ pv_pc = "start"
    /\ worker = [i \in 0 .. (num_agents - 1) |-> "new"]
    /\ finished = << >>
    /\ results = << >>
    /\ best = None
    /\ pv_err = None
InitVisionFairSpec == InitVisionFair /\ RefineParked /\ ObsParked /\ PipelineParked /\ MemoryParked
SpecVisionFair ==
    /\ InitVisionFairSpec
    /\ [][NextVisionSpec]_vars
    /\ \A i \in 0 .. (MaxAgents - 1) :
          WF_vars(i \in Agents /\ RunAgent(i)
                     /\ UNCHANGED <<rlVars, obsVars, snapVars, dashVars, plVars, memVars>>)

\* One refine invocation, for every configuration, raw vision confidence and
\* normalizer behaviour.
InitRefineSpec == InitRefine /\ VisionParked /\ ObsParked /\ PipelineParked /\ MemoryParked
NextRefineSpec ==
    \/ RefineStart /\ UNCHANGED <<pvVars, obsVars, snapVars, dashVars, plVars, memVars>>
    \/ RefineIterate /\ UNCHANGED <<pvVars, obsVars, snapVars, dashVars, plVars, memVars>>
    \/ RefineExhausted /\ UNCHANGED <<pvVars, obsVars, snapVars, dashVars, plVars, memVars>>
SpecRefine == InitRefineSpec /\ [][NextRefineSpec]_vars

\* refine is sequential code run by its caller: a step of it that can be
\* taken is taken (a geo_agent call returns or raises).
SpecRefineFair == SpecRefine /\ WF_vars(NextRefineSpec)

\* Threads calling into the metrics store, in every interleaving.
InitObsSpec == InitObs /\ VisionParked /\ RefineParked /\ PipelineParked /\ MemoryParked
NextObsSpec ==
    \/ Tick /\ UNCHANGED <<pvVars, rlVars, snapVars, dashVars, plVars, memVars>>
    \/ \E t \in Threads, key \in Keys, amount \in Amounts :
         IncCall(t, key, amount) /\ UNCHANGED <<pvVars, rlVars, snapVars, dashVars, plVars, memVars>>
    \/ \E t \in Threads : IncAcquire(t) /\ UNCHANGED <<pvVars, rlVars, snapVars, dashVars, plVars, memVars>>
    \/ \E t \in Threads : IncRead(t) /\ UNCHANGED <<pvVars, rlVars, snapVars, dashVars, plVars, memVars>>
    \/ \E t \in Threads : IncWrite(t) /\ UNCHANGED <<pvVars, rlVars, snapVars, dashVars, plVars, memVars>>
    \/ \E t \in Threads, key \in Keys : TimerEnter(t, key) /\ UNCHANGED <<pvVars, rlVars, snapVars, dashVars, plVars, memVars>>
    \/ \E t \in Threads : BodyRaises(t) /\ UNCHANGED <<pvVars, rlVars, snapVars, dashVars, plVars, memVars>>
    \/ \E t \in Threads : TimerExit(t) /\ UNCHANGED <<pvVars, rlVars, snapVars, dashVars, plVars, memVars>>
    \/ \E t \in Threads : ExitAcquire(t) /\ UNCHANGED <<pvVars, rlVars, snapVars, dashVars, plVars, memVars>>
    \/ \E t \in Threads : ExitWrite(t) /\ UNCHANGED <<pvVars, rlVars, snapVars, dashVars, plVars, memVars>>
    \/ \E t \in Threads : Propagate(t) /\ UNCHANGED <<pvVars, rlVars, snapVars, dashVars, plVars, memVars>>
    \/ \E t \in Threads, key \in Keys, value \in LatencyValues :
         LatCall(t, key, value) /\ UNCHANGED <<pvVars, rlVars, dashVars, plVars, memVars>>
    \/ \E t \in Threads : LatAcquire(t) /\ UNCHANGED <<pvVars, rlVars, dashVars, plVars, memVars>>
    \/ \E t \in Threads : LatWrite(t) /\ UNCHANGED <<pvVars, rlVars, dashVars, plVars, memVars>>
    \/ \E t \in Threads : SnapCall(t) /\ UNCHANGED <<pvVars, rlVars, dashVars, plVars, memVars>>
    \/ \E t \in Threads : SnapAcquire(t) /\ UNCHANGED <<pvVars, rlVars, dashVars, plVars, memVars>>
    \/ \E t \in Threads : SnapCopy(t) /\ UNCHANGED <<pvVars, rlVars, dashVars, plVars, memVars>>
    \/ \E t \in Threads : SnapReturn(t) /\ UNCHANGED <<pvVars, rlVars, dashVars, plVars, memVars>>
    \/ \E t \in Threads, i \in 1 .. Len(Groups), key \in Keys :
         MutateSnapshot(t, Groups[i], key) /\ UNCHANGED <<pvVars, rlVars, dashVars, plVars, memVars>>
SpecObs == InitObsSpec /\ [][NextObsSpec]_vars

\* Threads incrementing counters by one, recording one latency and rendering
\* the dashboard, in every interleaving.  The text depends on what the store
\* holds when it is copied, so one amount and one latency value suffice to
\* make successive renderings differ.
NextDashSpec ==
    \/ \E t \in Threads, key \in Keys :
         IncCall(t, key, 1) /\ UNCHANGED <<pvVars, rlVars, snapVars, dashVars, plVars, memVars>>
    \/ \E t \in Threads : IncAcquire(t) /\ UNCHANGED <<pvVars, rlVars, snapVars, dashVars, plVars, memVars>>
    \/ \E t \in Threads : IncRead(t) /\ UNCHANGED <<pvVars, rlVars, snapVars, dashVars, plVars, memVars>>
    \/ \E t \in Threads : IncWrite(t) /\ UNCHANGED <<pvVars, rlVars, snapVars, dashVars, plVars, memVars>>
    \/ \E t \in Threads :
         LatCall(t, "x", FloatNum(2)) /\ UNCHANGED <<pvVars, rlVars, dashVars, plVars, memVars>>
    \/ \E t \in Threads : LatAcquire(t) /\ UNCHANGED <<pvVars, rlVars, dashVars, plVars, memVars>>
    \/ \E t \in Threads : LatWrite(t) /\ UNCHANGED <<pvVars, rlVars, dashVars, plVars, memVars>>
    \/ \E t \in Threads : RenderCall(t) /\ UNCHANGED <<pvVars, rlVars, plVars, memVars>>
    \/ \E t \in Threads : SnapAcquire(t) /\ UNCHANGED <<pvVars, rlVars, dashVars, plVars, memVars>>
    \/ \E t \in Threads : SnapCopy(t) /\ UNCHANGED <<pvVars, rlVars, dashVars, plVars, memVars>>
    \/ \E t \in Threads : SnapReturnToFormatter(t) /\ UNCHANGED <<pvVars, rlVars, plVars, memVars>>
    \/ \E t \in Threads : RenderFormat(t) /\ UNCHANGED <<pvVars, rlVars, plVars, memVars>>
SpecDash == InitObsSpec /\ [][NextDashSpec]_vars

\* One plan_itinerary_from_reel invocation, for every outcome of every
\* operation it depends on, with the clock advancing between its steps.
InitPipelineSpec == InitPipeline /\ VisionParked /\ RefineParked /\ MemoryParked
PipelineSteps ==
    \/ PlanCall /\ UNCHANGED <<pvVars, rlVars, snapVars, dashVars, obsRest, now, memVars>>
    \/ ExtractFrames /\ UNCHANGED <<pvVars, rlVars, snapVars, dashVars, obsRest, now, reels, memVars>>
    \/ ConstructEngine /\ UNCHANGED <<pvVars, rlVars, snapVars, dashVars, obsRest, now, reels, memVars>>
    \/ Inference /\ UNCHANGED <<pvVars, rlVars, snapVars, dashVars, obsRest, now, memVars>>
    \/ ConstructGeo /\ UNCHANGED <<pvVars, rlVars, snapVars, dashVars, obsRest, now, reels, memVars>>
    \/ Refinement /\ UNCHANGED <<pvVars, rlVars, snapVars, dashVars, obsRest, now, memVars>>
    \/ PlanChecksLocation /\ UNCHANGED <<pvVars, rlVars, snapVars, dashVars, obsRest, now, reels, memVars>>
    \/ PlacesKey /\ UNCHANGED <<pvVars, rlVars, snapVars, dashVars, obsRest, now, reels, memVars>>
    \/ PlacesRequest /\ UNCHANGED <<pvVars, rlVars, snapVars, dashVars, obsRest, now, reels, memVars>>
    \/ PlanChecksPlaces /\ UNCHANGED <<pvVars, rlVars, snapVars, dashVars, obsRest, now, reels, memVars>>
    \/ ConstructItinerary /\ UNCHANGED <<pvVars, rlVars, snapVars, dashVars, obsRest, now, reels, memVars>>
    \/ Compose /\ UNCHANGED <<pvVars, rlVars, snapVars, th_render, obsRest, now, reels, memVars>>
NextPipelineSpec ==
    \/ Tick /\ UNCHANGED <<pvVars, rlVars, snapVars, dashVars, plVars, memVars>>
    \/ PipelineSteps
SpecPipeline == InitPipelineSpec /\ [][NextPipelineSpec]_vars

\* A server process handling plan_itinerary_from_reel requests one after the
\* other, the metrics store living on between them; counters do not depend on
\* the clock, which stands still here.
NextServerSpec ==
    \/ PipelineSteps
    \/ PlanAgain /\ UNCHANGED <<pvVars, rlVars, snapVars, dashVars, obsRest, now, memVars>>
SpecServer == InitPipelineSpec /\ [][NextServerSpec]_vars

\* A process making run_once calls one after the other, for every prompt and
\* every outcome of the runner.
InitMemorySpec ==
    InitMemory /\ VisionParked /\ RefineParked /\ ObsParked /\ PipelineParked
NextMemorySpec ==
    \/ \E prompt \in Prompts :
         RunOnceCall(prompt) /\ UNCHANGED <<pvVars, rlVars, obsVars, snapVars, dashVars, plVars>>
    \/ \E text \in Responses :
         RunOnceReturns(text) /\ UNCHANGED <<pvVars, rlVars, obsVars, snapVars, dashVars, plVars>>
    \/ RunOnceRaises /\ UNCHANGED <<pvVars, rlVars, obsVars, snapVars, dashVars, plVars>>
SpecMemory == InitMemorySpec /\ [][NextMemorySpec]_vars

\* ===================================================== claims: the engine
\* The data model's type of a candidate: every landmark confidence lies in
\* [0, 1] (0 .. 10 tenths); a landmark without the key counts as 0.0.
InRange(r) ==
    \A k \in 1 .. Len(Landmarks(r)) :
        LandmarkConf(Landmarks(r)[k]) >= 0 /\ LandmarkConf(Landmarks(r)[k]) <= 10

SameMean(a, b) == ~ Greater(a, b) /\ ~ Greater(b, a)

\* C1: for N >= 1 candidates (typed as the data model types them), the
\* aggregation returns the candidate at the position w of the gathered
\* sequence whose mean landmark confidence no other candidate exceeds and
\* every earlier candidate stays strictly below (an empty landmark list
\* counting as mean 0), annotated with that mean.
C1_HighestMeanEarliestWins ==
    (/\ pv_pc \in {"returned", "raised"}
     /\ Len(results) >= 1
     /\ \A k \in 1 .. Len(results) : InRange(results[k].r))
    => /\ pv_pc = "returned"
       /\ \E w \in 1 .. Len(results) :
            /\ best[1].agent = results[w].agent
            /\ best[1].r = results[w].r
            /\ best[1].avg_confidence = AvgConf(results[w].r)
            /\ \A j \in 1 .. Len(results) :
                 ~ Greater(AvgConf(results[j].r), AvgConf(results[w].r))
            /\ \A j \in 1 .. (w - 1) :
                 Greater(AvgConf(results[w].r), AvgConf(results[j].r))

\* C1 witness: three candidates, the last two tied on the highest mean 0.5
\* with different landmark lists; the middle one was returned.
C1_Witness ==
    /\ pv_pc = "returned"
    /\ Len(results) = 3
    /\ results[1].r = WithLandmarks(<< >>)
    /\ results[2].r = WithLandmarks(<<LM(2), LM(8)>>)
    /\ results[3].r = WithLandmarks(<<LM(5)>>)
    /\ best[1].agent = 1

\* C2: the winner is decided by the assignment of results to dispatch
\* indices alone: whatever the order in which the workers completed, the
\* returned candidate is that of the smallest dispatch index among the agents
\* with the highest mean.
C2_WinnerIndependentOfCompletionOrder ==
    pv_pc = "returned"
    => LET w == best[1].agent
       IN  /\ w \in Agents
           /\ best[1].r = agentOut[w].r
           /\ \A j \in Agents :
                /\ ~ Greater(AvgConf(agentOut[j].r), AvgConf(agentOut[w].r))
                /\ j < w => Greater(AvgConf(agentOut[w].r), AvgConf(agentOut[j].r))

\* C2 witness: two agents tie on the highest mean, the one dispatched later
\* completed first, and the one dispatched earlier was returned.
C2_Witness ==
    /\ pv_pc = "returned"
    /\ \E i, j \in Agents :
         /\ i < j
         /\ best[1].agent = i
         /\ SameMean(AvgConf(agentOut[i].r), AvgConf(agentOut[j].r))
         /\ finished[1] = j

SomeAgentFails == \E i \in Agents : agentOut[i].raises

C4_JoinBarrier ==
    pv_pc = "returned"
    => /\ \A i \in Agents : worker[i] = "ok"
       /\ Len(finished) = num_agents
       /\ Len(results) = num_agents

\* C4 witness: a returned analyze of three workers.
C4_Witness ==
    /\ pv_pc = "returned"
    /\ num_agents = 3
    /\ Len(finished) = 3

\* C14: an engine with zero workers has nothing to aggregate: gather hands
\* back the empty list at once, and analyze then fails with ValueError; it
\* never returns a candidate.
C14_EmptyAggregationFails ==
    num_agents = 0
    => /\ best = None
       /\ pv_pc # "returned"
       /\ pv_pc = "awaiting" => ENABLED AnalyzeAggregates
       /\ pv_pc \notin {"start", "awaiting"}
             => pv_pc = "raised" /\ pv_err = Some("ValueError") /\ results = << >>

\* C14 witness: the engine without workers has aggregated the empty list and
\* raised.
C14_Witness ==
    /\ num_agents = 0
    /\ pv_pc = "raised"
    /\ pv_err = Some("ValueError")
    /\ finished = << >>

\* C27: whenever gather has handed back a non-empty list of results,
\* whatever their landmark confidences (values below 0 included), analyze
\* returns one of them and does not fail.
C27_NonEmptyAlwaysReturnsAnInput ==
    (pv_pc \in {"returned", "raised"} /\ Len(results) >= 1)
    => /\ pv_pc = "returned"
       /\ \E w \in 1 .. Len(results) :
            best[1].agent = results[w].agent /\ best[1].r = results[w].r

\* C16: from the moment analyze has dispatched its workers, every one of them
\* eventually completes or fails, whatever analyze itself has done meanwhile:
\* a worker still running when analyze has already raised another worker's
\* failure goes on to its end, none is cancelled.
C16_WorkersRunToCompletion == (pv_pc # "start") ~> AllDone

\* C16 witness: analyze has propagated a worker's failure while another
\* worker is still running.
C16_Witness ==
    /\ pv_pc = "raised"
    /\ \E i, j \in Agents : worker[i] = "failed" /\ worker[j] = "running"

\* ======================================================= claims: the loop
\* Iteration k stopped the loop and was returned: no call follows it, and
\* refine returned (the candidate computed in iteration k, k).
StoppedAt(k) ==
    /\ k = Len(hist)
    /\ calls = k
    /\ rl_pc = "returned"
    /\ ret[1].iters = k
    /\ ret[1].cand.iter = k
    /\ ret[1].cand = refined[1]

\* C5: an iteration k whose refined confidence is >= threshold ends the loop
\* at once: refine returns (the candidate computed in iteration k, k) and no
\* further normalizer call is made.
C5_ThresholdStopsImmediately ==
    \A k \in 1 .. Len(hist) :
        (hist[k].new_conf.kind = "num" /\ hist[k].new_conf.v >= threshold)
        => StoppedAt(k)

\* C5 witness: threshold 0.70, max_iters 3, normalizer confidences
\* [0.5, 0.8]: the iteration-2 candidate is returned with iterationsUsed 2.
C5_Witness ==
    /\ threshold = 7
    /\ max_iters = 3
    /\ Len(hist) = 2
    /\ hist[1].new_conf = Num(5)
    /\ hist[2].new_conf = Num(8)
    /\ rl_pc = "returned"
    /\ ret[1].cand = Cand(2, Num(8))
    /\ ret[1].iters = 2

\* C6: an iteration k whose refined confidence is below threshold and <= the
\* last accepted confidence (equality included) ends the loop at once:
\* refine returns (the candidate just computed in iteration k, k), not the
\* previously accepted candidate.
C6_NoImprovementStopsImmediately ==
    \A k \in 1 .. Len(hist) :
        (/\ Comparable(hist[k].new_conf, hist[k].last_conf)
         /\ hist[k].new_conf.v < threshold
         /\ hist[k].new_conf.v <= hist[k].last_conf.v)
        => /\ StoppedAt(k)
           /\ ret[1].cand # current[1]

\* C6 witness: confidences [0.5, 0.4]: the iteration-2 candidate is returned
\* with iterationsUsed 2, the accepted one being iteration 1's.
C6_Witness ==
    /\ Len(hist) = 2
    /\ hist[1].new_conf = Num(5)
    /\ hist[2].new_conf = Num(4)
    /\ rl_pc = "returned"
    /\ ret[1].cand = Cand(2, Num(4))
    /\ ret[1].iters = 2
    /\ current[1] = Cand(1, Num(5))

\* Every iteration was below threshold and strictly above the confidence
\* accepted before it, and max_iters >= 1 iterations were made.
Exhausted ==
    /\ rl_pc = "returned"
    /\ max_iters >= 1
    /\ Len(hist) = max_iters
    /\ \A k \in 1 .. Len(hist) :
         /\ Comparable(hist[k].new_conf, hist[k].last_conf)
         /\ hist[k].new_conf.v < threshold
         /\ hist[k].new_conf.v > hist[k].last_conf.v

\* C7 as claimed: on exhaustion refine returns iterationsUsed = max_iters with
\* the last accepted candidate, and that candidate differs from the most
\* recently computed one.
C7_AsClaimed ==
    Exhausted
    => /\ ret[1].iters = max_iters
       /\ ret[1].cand = current[1]
       /\ ret[1].cand # refined[1]

\* C7 amended: on exhaustion refine returns iterationsUsed = max_iters with
\* the last accepted candidate, which IS the most recently computed one (the
\* candidate of iteration max_iters): every sub-threshold, strictly improving
\* iteration is accepted, the last one included.
C7_ExhaustedReturnsLastComputed ==
    Exhausted
    => /\ ret[1].iters = max_iters
       /\ ret[1].branch = "exhausted"
       /\ ret[1].cand = current[1]
       /\ ret[1].cand = refined[1]
       /\ ret[1].cand.iter = max_iters
       /\ ret[1].cand.confidence = hist[max_iters].new_conf

\* C7 witness: confidences [0.3, 0.5, 0.6], max_iters 3, threshold 0.70: the
\* loop is exhausted and the iteration-3 candidate (0.6) is returned.
C7_Witness ==
    /\ Exhausted
    /\ threshold = 7
    /\ max_iters = 3
    /\ hist[1].new_conf = Num(3)
    /\ hist[2].new_conf = Num(5)
    /\ hist[3].new_conf = Num(6)
    /\ ret[1].cand = Cand(3, Num(6))
    /\ ret[1].iters = 3

\* A confidence that is not a number was compared in some iteration.
NonNumericCompared ==
    \E k \in 1 .. Len(hist) :
        \/ hist[k].new_conf.kind # "num"
        \/ hist[k].last_conf.kind # "num"

\* for max_iters >= 1: at most max_iters normalizer calls are made, iters
\* counts exactly those calls, a return carries iterationsUsed in
\* 1 .. max_iters equal to the number of calls, and refine ends otherwise
\* than by a return only when the normalizer failed or a confidence that is
\* not a number was compared
IterationsUsedInRange ==
    max_iters >= 1
    => /\ calls <= max_iters
       /\ iters = calls
       /\ rl_pc = "returned"
            => /\ ret[1].iters \in 1 .. max_iters
               /\ ret[1].iters = calls
       /\ rl_pc = "raised"
            => \/ rl_err = Some("RefinementError")
               \/ rl_err = Some("TypeError") /\ NonNumericCompared

\* C8: for every max_iters >= 1 and every normalizer behaviour, refine
\* terminates, having made at most max_iters normalizer calls; when it
\* returns, iterationsUsed is in 1 .. max_iters and equals the number of
\* normalizer calls made; it ends without returning only when the normalizer
\* failed or a confidence that is not a number was compared.
C8_IterationsUsedBounded ==
    /\ [] IterationsUsedInRange
    /\ <> (rl_pc \in {"returned", "raised"})

\* C8 witness: a return after max_iters = 3 calls.
C8_Witness ==
    /\ rl_pc = "returned"
    /\ max_iters = 3
    /\ calls = 3
    /\ ret[1].iters = 3

\* The number of normalizer calls of this invocation that failed: every call
\* that returned left an entry in hist.
FailedCalls == calls - Len(hist)

\* C15: when a normalizer call fails, in whichever iteration k, refine ends
\* there by raising that failure: it returns no pair, the failed call was the
\* last call of the invocation (calls = iters = k, so no retry and no further
\* call), and exactly one call has failed.
C15_NormalizerFailurePropagates ==
    FailedCalls > 0
    => /\ rl_pc = "raised"
       /\ rl_err = Some("RefinementError")
       /\ ret = None
       /\ FailedCalls = 1
       /\ calls = iters

\* C15 witness: the normalizer failed in iteration 2, after an iteration that
\* was accepted, and refine has raised.
C15_Witness ==
    /\ rl_pc = "raised"
    /\ rl_err = Some("RefinementError")
    /\ calls = 2
    /\ Len(hist) = 1
    /\ current = refined

\* confidence or 0: a confidence that is missing or null counts as 0
OrZero(c) == IF c.kind = "num" THEN c ELSE Num(0)

\* C23: a confidence that is absent or null is read as 0, for the initial
\* candidate (last_conf starts at 0) and for every refined candidate (new_conf
\* is 0), and refine never fails on such a candidate.
C23_MissingConfidenceIsZero ==
    /\ rl_err # Some("TypeError")
    /\ (rl_pc = "loop" /\ calls = 0) => last_conf[1] = OrZero(raw_vision.confidence)
    /\ (refined # None /\ hist # << >>) =>
          hist[Len(hist)].new_conf = OrZero(refined[1].confidence)

\* C25: with max_iters >= 1, whichever way refine returns (threshold met, no
\* improvement, exhaustion), the returned candidate is the output of the most
\* recent normalizer call of the invocation, never the initial candidate nor
\* the candidate of an earlier iteration.
C25_ReturnsMostRecentOutput ==
    (rl_pc = "returned" /\ max_iters >= 1)
    => /\ calls >= 1
       /\ ret[1].cand = refined[1]
       /\ ret[1].cand.iter = calls
       /\ ret[1].cand # raw_vision

\* C25 witness: two accepted iterations exhaust max_iters = 2 and the
\* candidate of call 2 is returned.
C25_Witness ==
    /\ rl_pc = "returned"
    /\ ret[1].branch = "exhausted"
    /\ max_iters = 2
    /\ calls = 2
    /\ ret[1].cand = Cand(2, Num(5))

\* The calls after which the loop went on: every call but the last to have
\* returned, and the last one too while refine is still in the loop or once
\* it has exhausted its iterations.
AcceptedCalls ==
    {k \in 1 .. Len(hist) :
        \/ k < calls
        \/ rl_pc = "loop"
        \/ rl_pc = "returned" /\ ret[1].branch = "exhausted"}

\* C26: the confidence of every accepted iteration is strictly below
\* threshold and strictly above the confidence accepted before it (so no
\* confidence is accepted twice), and each normalizer call is given the most
\* recently accepted candidate, the initial candidate in iteration 1.
C26_AcceptedStrictlyIncreasing ==
    /\ \A k \in AcceptedCalls :
          /\ Comparable(hist[k].new_conf, hist[k].last_conf)
          /\ hist[k].new_conf.v < threshold
          /\ hist[k].new_conf.v > hist[k].last_conf.v
          /\ k > 1 => hist[k].last_conf = hist[k - 1].new_conf
    /\ \A j, k \in AcceptedCalls : j < k => hist[j].new_conf.v < hist[k].new_conf.v
    /\ \A k \in 1 .. Len(hist) :
          /\ k = 1 => hist[k].input = raw_vision
          /\ k > 1 => /\ (k - 1) \in AcceptedCalls
                      /\ hist[k].input = Cand(k - 1, hist[k - 1].new_conf)
    /\ (rl_pc = "loop" /\ hist # << >>) =>
          current[1] = Cand(Len(hist), hist[Len(hist)].new_conf)

\* C26 witness: three calls, the first two accepted with confidences 0.3 and
\* 0.5, the third given the candidate of the second.
C26_Witness ==
    /\ Len(hist) = 3
    /\ {1, 2} \subseteq AcceptedCalls
    /\ hist[1].new_conf = Num(3)
    /\ hist[2].new_conf = Num(5)
    /\ hist[3].input = Cand(2, Num(5))

\* ============================================== claims: the metrics store
InInc(t) == th_pc[t] \in {"inc_acquire", "inc_read", "inc_write"}

\* the sum over the threads 1 .. n of the amounts their returned inc(key, _)
\* calls added
RECURSIVE SumReturned(_, _)
SumReturned(n, key) ==
    IF n = 0 THEN 0 ELSE incReturned[n][key] + SumReturned(n - 1, key)

\* C9: whenever every inc call made so far has returned, each counter equals
\* its value at start (0, no key) plus the sum of the amounts of all those
\* calls, whatever the interleaving of the calling threads.
C9_NoLostUpdates ==
    (\A t \in Threads : ~ InInc(t))
    => \A key \in Keys :
         Get(metrics.counters, key, 0) = SumReturned(NumThreads, key)

\* C9 witness: two threads have each returned from inc("x", 3) and
\* counters["x"] is 6.
C9_Witness ==
    /\ \A t \in Threads : ~ InInc(t)
    /\ incReturned[1]["x"] = 3
    /\ incReturned[2]["x"] = 3
    /\ Lookup(metrics.counters, "x") = Some(6)

\* thread t leaves its innermost timer scope in this step
ScopeLeft(t) == Len(th_scopes'[t]) < Len(th_scopes[t])

\* thread t enters __exit__ of its innermost scope in this step
ExitBegun(t) == th_pc[t] = "idle" /\ th_pc'[t] = "exit_acquire"

\* the step that enters __exit__ measures the clock's reading minus the
\* reading at the scope's start
ExitMeasures(t) ==
    LET self == th_scopes[t][Len(th_scopes[t])]
    IN  th_tmp'[t] = now - self.start

\* the step in which thread t leaves a scope stores the measured duration
\* into timings[key] of that scope (a span from the scope's start to a
\* reading not later than now) and keeps the exception of the wrapped
\* operation (if any) propagating
ExitRecords(t) ==
    LET self == th_scopes[t][Len(th_scopes[t])]
    IN  /\ Lookup(metrics'.timings, self.key) = Some(th_tmp[t])
        /\ th_tmp[t] <= now - self.start
        /\ th_exc'[t] = th_exc[t]

\* the duration that step stores
Recorded(t) == Get(metrics'.timings, th_scopes[t][Len(th_scopes[t])].key, 0)

\* the caller sees the failure only once every scope around it was left
PropagatesAfterExit ==
    \A t \in Threads :
        /\ th_result[t] = "raised" => (th_exc[t] /\ th_scopes[t] = << >>)
        /\ (th_exc[t] /\ th_scopes[t] = << >> /\ th_result[t] = "running")
             => ENABLED Propagate(t)

\* C10 as claimed: a timer scope records its elapsed duration on exit whether
\* the wrapped operation returned or raised, the duration is strictly
\* positive, and the failure still propagates after the timing was written.
C10_AsClaimed ==
    /\ [] PropagatesAfterExit
    /\ [][\A t \in Threads :
            /\ ExitBegun(t) => ExitMeasures(t)
            /\ ScopeLeft(t) => (ExitRecords(t) /\ Recorded(t) > 0)]_vars

\* C10 amended: a timer scope records its elapsed duration (end - start of
\* the clock's readings) on exit whether the wrapped operation returned or
\* raised; the duration is non-negative, and zero when the clock reading did
\* not advance between enter and exit; the failure is never suppressed and
\* propagates after the timing was written.
C10_TimerRecordsOnEveryExit ==
    /\ [] PropagatesAfterExit
    /\ [][\A t \in Threads :
            /\ ExitBegun(t) => ExitMeasures(t)
            /\ ScopeLeft(t) => (ExitRecords(t) /\ Recorded(t) >= 0)]_vars

\* C10 witness: the operation wrapped by a scope on "x" raised, the scope
\* recorded a positive duration, and the caller has seen the failure.
C10_Witness ==
    \E t \in Threads :
        /\ th_result[t] = "raised"
        /\ Lookup(metrics.timings, "x") = Some(1)
        /\ ops = 2

\* The items thread t finds in the dict get_metrics returned to it.
SnapView(t) ==
    LET snap == th_snap[t][1]
    IN  [counters |-> Deref(snap.counters, metrics.counters),
         latencies |-> Deref(snap.latencies, metrics.latencies),
         timings |-> Deref(snap.timings, metrics.timings)]

\* This step is the store of an inc, a record_latency or a timer exit.
StoreWrites ==
    \E t \in Threads :
        /\ th_pc[t] \in {"inc_write", "lat_write", "exit_write"}
        /\ th_pc'[t] = "idle"

\* C11: a dict returned by get_metrics shares nothing with the live store.
\* Whatever any thread does next, a caller that holds a returned dict and does
\* not touch it itself finds the same items in it (so no later inc,
\* record_latency or timer exit shows through), and the live store changes
\* only in the store step of inc, record_latency or timer exit (so a caller
\* assigning into its returned dict leaves the store as it was).
C11_SnapshotNeverAliases ==
    [][ /\ \A t \in Threads :
              (th_snap[t] # None /\ th_snap'[t] = th_snap[t]) => SnapView(t)' = SnapView(t)
        /\ metrics' # metrics => StoreWrites ]_vars

\* A caller still holds the dict it got from the empty store, unchanged, after
\* a later call has written to the store.
C11_Witness ==
    \E t \in Threads :
        /\ th_snap[t] # None
        /\ \A k \in Keys : /\ Lookup(SnapView(t).counters, k) = None
                           /\ Lookup(SnapView(t).latencies, k) = None
                           /\ Lookup(SnapView(t).timings, k) = None
        /\ metrics.counters # EmptyDict \/ metrics.latencies # EmptyDict
              \/ metrics.timings # EmptyDict

\* This step is get_metrics returning to thread t.
SnapReturns(t) == th_pc[t] = "snap_copy" /\ th_pc'[t] = "idle"

\* C12: with writers running concurrently, the dict get_metrics returns holds
\* the counters, the latencies and the timings the live store holds at one
\* instant of the call, the instant it returns: the three groups are never
\* taken from different contents of the store.
C12_SnapshotIsPointInTime ==
    [][ \A t \in Threads : SnapReturns(t) => SnapView(t)' = metrics' ]_vars

\* get_metrics has returned to one thread while another thread's write was
\* waiting for the lock.
C12_Witness ==
    \E t, u \in Threads :
        /\ t # u
        /\ th_snap[t] # None
        /\ SnapView(t) = metrics
        /\ th_pc[u] \in {"inc_acquire", "lat_acquire", "exit_acquire"}

\* Thread t is at a statement that reads or writes one of the three maps.
Accessing(t) ==
    th_pc[t] \in {"inc_read", "inc_write", "lat_write", "exit_write", "snap_copy"}

\* C17: the three maps are only ever read or written by the holder of
\* _METRICS_LOCK: a thread that is at a read or a write of the maps, in inc,
\* record_latency, a timer exit or get_metrics, holds the lock, so at most one
\* thread is at such a statement.
C17_AccessSerialized ==
    /\ \A t \in Threads : Accessing(t) => lock = t
    /\ Cardinality({t \in Threads : Accessing(t)}) <= 1

\* One thread is about to store a counter while another one, inside
\* get_metrics, waits for the lock.
C17_Witness ==
    \E t, u \in Threads :
        /\ th_pc[t] = "inc_write"
        /\ th_pc[u] = "snap_acquire"
        /\ lock = t

\* Thread t waits for _METRICS_LOCK at the head of a with block.
Waiting(t) ==
    th_pc[t] \in {"inc_acquire", "lat_acquire", "exit_acquire", "snap_acquire"}

\* The lock is held exactly while its holder is at a read or a write of the
\* maps, never while a timed operation runs; the holder can always take its
\* next step, and a waiting thread can enter as soon as the lock is free.
NoDeadlock ==
    \A t \in Threads :
        /\ lock = t <=> Accessing(t)
        /\ Accessing(t) =>
              ENABLED (IncRead(t) \/ IncWrite(t) \/ LatWrite(t) \/ ExitWrite(t)
                       \/ SnapCopy(t) \/ SnapReturn(t))
        /\ (Waiting(t) /\ lock = 0) =>
              ENABLED (IncAcquire(t) \/ LatAcquire(t) \/ ExitAcquire(t) \/ SnapAcquire(t))
        /\ th_pc[t] \in {"exit_acquire", "exit_write"} =>
              /\ th_scopes[t] # << >>
              /\ th_tmp[t] >= 0
              /\ th_tmp[t] <= Duration(now, th_scopes[t][Len(th_scopes[t])].start)

\* The exit of thread t's outermost scope stores that scope's duration under
\* its key, whatever the scopes nested in it have stored there.
OutermostStored ==
    \A t \in Threads :
        (th_pc[t] = "exit_write" /\ th_pc'[t] = "idle" /\ Len(th_scopes[t]) = 1)
        => /\ Lookup(metrics'.timings, th_scopes[t][1].key) = Some(th_tmp[t])
           /\ th_scopes'[t] = << >>
           /\ lock' = 0

\* C30: metrics operations never deadlock: the lock is held only for one map
\* read or update and never across a timed operation, so timer scopes nested
\* with the same key and inc, record_latency and get_metrics calls made
\* inside a scope always can go on; and when the outermost scope exits,
\* timings[key] holds its duration.
C30_NoDeadlockOutermostWins == [] NoDeadlock /\ [][OutermostStored]_vars

\* Two scopes with the same key, the only operations begun: the inner one,
\* entered and left at clock 1, has stored 0; the outer one, entered at clock
\* 0, is about to store 1.
C30_Witness ==
    \E t \in Threads :
        /\ ops = 2
        /\ th_scopes[t] = <<[key |-> "x", start |-> 0]>>
        /\ Lookup(metrics.timings, "x") = Some(0)
        /\ th_pc[t] = "exit_write"
        /\ th_tmp[t] = 1
        /\ lock = t

\* C18: record_latency overwrites: a key no call has stored has no latency,
\* and otherwise latencies[key] is the value of the most recent call on that
\* key, as a float, whatever the earlier calls on the key were given.
C18_LatencyIsLastValue ==
    \A k \in Keys :
        IF latencyCalls[k] = << >>
        THEN Lookup(metrics.latencies, k) = None
        ELSE /\ Lookup(metrics.latencies, k) # None
             /\ Lookup(metrics.latencies, k)[1].type = "float"
             /\ NumEq(Lookup(metrics.latencies, k)[1], latencyCalls[k][Len(latencyCalls[k])])

\* Two calls on the same key with different values have stored, the larger
\* value first.
C18_Witness ==
    /\ latencyCalls["x"] = <<FloatNum(2), IntNum(0)>>
    /\ Lookup(metrics.latencies, "x") = Some(FloatNum(0))

\* This step is the store of thread t's inc call.
IncStores(t) == th_pc[t] = "inc_write" /\ th_pc'[t] = "idle"

\* C19: the store of inc(key, amount) leaves counters[key] at amount more
\* than it held, counting an absent key as 0 (so exactly amount then), and
\* leaves every other counter, every latency and every timing as it was.
C19_IncAddsAndFrames ==
    [][ \A t \in Threads :
          IncStores(t) =>
             /\ Lookup(metrics'.counters, th_key[t]) =
                   Some((IF Has(metrics.counters, th_key[t])
                         THEN Get(metrics.counters, th_key[t], 0) ELSE 0) + th_amount[t])
             /\ \A k \in Keys \ {th_key[t]} :
                   Lookup(metrics'.counters, k) = Lookup(metrics.counters, k)
             /\ metrics'.latencies = metrics.latencies
             /\ metrics'.timings = metrics.timings ]_vars

\* A counter was created by one inc and added to by the next, while the other
\* counter stayed absent.
C19_Witness ==
    /\ Lookup(metrics.counters, "x") = Some(4)
    /\ Lookup(metrics.counters, "y") = None
    /\ \A t \in Threads : th_pc[t] = "idle"

\* ==================================================== claims: the pipeline
\* The stage a failing operation belongs to.
StageOf(op) ==
    CASE op \in {"frame_extraction", "vision_credentials", "parallel_inference",
                 "geo_credentials", "refinement"} -> "analyze_reel"
      [] op \in {"places_credentials", "places_search"} -> "fetch_city_places"
      [] op \in {"itinerary_credentials", "itinerary_composition"} -> "plan_itinerary_from_reel"

\* C13: plan_itinerary_from_reel never raises, and whichever operation fails
\* (frame extraction, constructing a collaborator without credentials,
\* parallel inference, refinement, the places search, composing the
\* itinerary), the run ends by returning a dict that has both a "stage" and
\* an "error" key, the stage being the one the failing operation belongs to.
C13_FailureReturnsTaggedError ==
    /\ pl_pc # "raised"
    /\ fault # None =>
          /\ pl_pc \in {"reel_returned", "places_returned", "returned"}
          /\ pl_pc = "returned" =>
                /\ {"stage", "error"} \subseteq pl_result[1].keys
                /\ pl_result[1].stage = StageOf(fault[1])
                /\ pl_result[1].error = fault[1]

\* The places search failed and the run has returned the tagged dict.
C13_Witness ==
    /\ pl_pc = "returned"
    /\ fault = Some("places_search")
    /\ pl_result = Some(Tagged("fetch_city_places", "places_search"))

\* The stages that have been started so far.
Started == {started[i] : i \in 1 .. Len(started)}
ValueKeys == {"city", "country", "region", "landmarks", "places", "itinerary_markdown"}

\* C21: an error payload returned by plan_itinerary_from_reel holds none of
\* city, country, region, landmarks, places and itinerary; once analyze_reel
\* has failed (it raised inside, or its dict holds "error") the places search
\* is never started, and once the places search has failed the itinerary
\* composition is never started.
C21_NoSubstituteAfterFailure ==
    /\ (pl_result # None /\ "error" \in pl_result[1].keys) =>
          pl_result[1].keys \cap ValueKeys = {}
    /\ (fault # None /\ StageOf(fault[1]) = "analyze_reel") =>
          Started = {"analyze_reel"}
    /\ (ar_result # None /\ "error" \in ar_result[1].keys) =>
          Started = {"analyze_reel"}
    /\ (fault # None /\ StageOf(fault[1]) = "fetch_city_places") =>
          "build_itinerary" \notin Started
    /\ (places_resp # None /\ "error" \in places_resp[1].keys) =>
          "build_itinerary" \notin Started

\* analyze_reel failed in its refinement and the run has returned the error
\* payload without having started the places search.
C21_Witness ==
    /\ pl_pc = "returned"
    /\ fault = Some("refinement")
    /\ pl_result = Some(Tagged("analyze_reel", "refinement"))
    /\ Started = {"analyze_reel"}

\* The latency recorded under lkey equals the timing recorded under tkey.
LatencyIsTiming(lkey, tkey) ==
    /\ Has(metrics.latencies, lkey)
    /\ Has(metrics.timings, tkey)
    /\ Get(metrics.latencies, lkey, FloatNum(0)).v = Get(metrics.timings, tkey, 0)

\* C28: when plan_itinerary_from_reel has returned the itinerary, every
\* stage latency equals the timing of its stage: places_latency that of
\* places_api, itinerary_latency that of itinerary_generation, and
\* vision_parallel_latency that of vision_parallel.
C28_LatencyEqualsTiming ==
    (pl_pc = "returned" /\ pl_result = Some(Itinerary))
    => /\ LatencyIsTiming("vision_parallel_latency", "vision_parallel")
       /\ LatencyIsTiming("places_latency", "places_api")
       /\ LatencyIsTiming("itinerary_latency", "itinerary_generation")

\* The number of invocations so far whose parallel vision stage succeeded,
\* and the sum of iterationsUsed over those whose refinement succeeded.
RECURSIVE VisionSucceeded(_)
VisionSucceeded(rs) ==
    IF rs = << >> THEN 0
    ELSE (IF Head(rs).vision THEN 1 ELSE 0) + VisionSucceeded(Tail(rs))
RECURSIVE IterationsUsed(_)
IterationsUsed(rs) ==
    IF rs = << >> THEN 0
    ELSE (IF Head(rs).refinement THEN Head(rs).iters ELSE 0) + IterationsUsed(Tail(rs))

\* C29: at every moment of a process that serves one invocation after the
\* other, counters["vision_parallel_calls"] is the number of analyze_reel
\* invocations whose parallel vision stage succeeded and
\* counters["geo_refinement_iterations"] the sum of iterationsUsed over those
\* whose refinement succeeded (absent while there is none); a failed stage
\* has left its counter as it was but has recorded its timing.
C29_CountersAccumulateAcrossRuns ==
    /\ Get(metrics.counters, "vision_parallel_calls", 0) = VisionSucceeded(reels)
    /\ Get(metrics.counters, "geo_refinement_iterations", 0) = IterationsUsed(reels)
    /\ fault = Some("parallel_inference") => Has(metrics.timings, "vision_parallel")
    /\ fault = Some("refinement") => Has(metrics.timings, "geo_refinement")

\* Two invocations: the first succeeded with 2 refinement iterations, the
\* second failed in its refinement after a successful vision stage.
C29_Witness ==
    /\ Len(reels) = 2
    /\ reels[1].refinement /\ reels[1].iters = 2
    /\ reels[2].vision /\ ~ reels[2].refinement
    /\ fault = Some("refinement")
    /\ Lookup(metrics.counters, "vision_parallel_calls") = Some(2)
    /\ Lookup(metrics.counters, "geo_refinement_iterations") = Some(2)

\* ===================================================== claims: the dashboard
\* The lines of a text that show the items of the dict d.
LinesOf(text, d) ==
    {i \in 1 .. Len(text) :
        /\ text[i].kind = "metric"
        /\ \E j \in 1 .. Len(d) : text[i].label = Title(d[j].key)}

\* The line shows an item of the group (the dict d of the snapshot) under
\* its label: its value with this many decimals and this unit.
Shows(line, group, d, decimals, unit) ==
    \E j \in 1 .. Len(d) :
        /\ line.label = Title(d[j].key)
        /\ line.whole = (IF group = "latencies" THEN d[j].value.v ELSE d[j].value)
        /\ line.decimals = decimals
        /\ line.unit = unit

\* C24: in the dashboard text every timings line precedes every latencies
\* line, which precedes every counters line; each group has one line per
\* item; timings and latencies are shown with two decimals followed by "s",
\* counters as plain integers.
C24_GroupsInFixedOrder ==
    \A r \in 1 .. Len(rendered) :
        LET text == rendered[r].text
            snap == rendered[r].snap
            T == LinesOf(text, snap.timings)
            L == LinesOf(text, snap.latencies)
            C == LinesOf(text, snap.counters)
        IN  /\ \A i \in T, j \in L : i < j
            /\ \A i \in L, j \in C : i < j
            /\ \A i \in T, j \in C : i < j
            /\ Cardinality(T) = Len(snap.timings)
            /\ Cardinality(L) = Len(snap.latencies)
            /\ Cardinality(C) = Len(snap.counters)
            /\ \A i \in T : Shows(text[i], "timings", snap.timings, 2, "s")
            /\ \A i \in L : Shows(text[i], "latencies", snap.latencies, 2, "s")
            /\ \A i \in C : Shows(text[i], "counters", snap.counters, 0, "")

\* A successful run has formatted a store that holds five timings, four
\* latencies and three counters.
C24_Witness ==
    /\ pl_pc = "returned"
    /\ Len(rendered) = 1
    /\ Len(rendered[1].snap.timings) = 5
    /\ Len(rendered[1].snap.latencies) = 4
    /\ Len(rendered[1].snap.counters) = 3
    /\ Len(rendered[1].text) = 16

\* ================================================== claims: the MemoryBank
\* C22: the context injected into the agent by a run_once call is the
\* compaction of everything stored so far in the process, by this call and
\* by the calls before it (the most recent five entries).
C22_MemoryPersistsAcrossCalls ==
    \A k \in 1 .. Len(injected) : injected[k].context = Compact(injected[k].known)

====
